---------------------------- MODULE Spec2Model ----------------------------
(***************************************************************************)
(* A model of the BGP monitor (valdijanio/bgp-monitor): the SSH command    *)
(* gateway (app/core/ssh_client.py), the state reconcilers                 *)
(* (app/services/bgp_collector.py, app/services/interface_collector.py),   *)
(* the SQLite transaction wrapper (app/core/database.py) and the alert     *)
(* evaluator (app/services/alert_manager.py).                              *)
(*                                                                         *)
(* Text is modelled as TLA+ strings handled one character at a time, so    *)
(* that lower(), strip(), startswith() and split() are computed.           *)
(***************************************************************************)
EXTENDS Integers, Sequences, FiniteSets, TLC

(***************************************************************************)
(* Bounds of the model.                                                    *)
(***************************************************************************)
\* execute_command calls started in one behaviour of the gateway
MaxCalls == 2
\* reconcile runs in one behaviour of the reconcilers
MaxRuns == 2
\* the last minute of the clock at which the alert evaluator runs
MaxNow == 11
\* trigger firings in one behaviour of the scheduler
MaxTriggers == 4
MaxDays == 90

(***************************************************************************)
(* Text helpers: Python's str.lower, str.strip, str.startswith, `in`,      *)
(* str.split("\n").                                                        *)
(***************************************************************************)
UpperToLower ==
    ("A" :> "a") @@ ("B" :> "b") @@ ("C" :> "c") @@ ("D" :> "d") @@
    ("E" :> "e") @@ ("F" :> "f") @@ ("G" :> "g") @@ ("H" :> "h") @@
    ("I" :> "i") @@ ("J" :> "j") @@ ("K" :> "k") @@ ("L" :> "l") @@
    ("M" :> "m") @@ ("N" :> "n") @@ ("O" :> "o") @@ ("P" :> "p") @@
    ("Q" :> "q") @@ ("R" :> "r") @@ ("S" :> "s") @@ ("T" :> "t") @@
    ("U" :> "u") @@ ("V" :> "v") @@ ("W" :> "w") @@ ("X" :> "x") @@
    ("Y" :> "y") @@ ("Z" :> "z")

LowerChar(ch) == IF ch \in DOMAIN UpperToLower THEN UpperToLower[ch] ELSE ch

\* The text is lowered half by half.
RECURSIVE Lower(_)
Lower(s) ==
    IF Len(s) <= 1 THEN LowerChar(s)
    ELSE Lower(SubSeq(s, 1, Len(s) \div 2))
            \o Lower(SubSeq(s, Len(s) \div 2 + 1, Len(s)))

IsSpace(ch) == ch \in {" ", "\t", "\n", "\r", "\f"}

RECURSIVE LStrip(_)
LStrip(s) ==
    IF Len(s) > 0 /\ IsSpace(SubSeq(s, 1, 1))
    THEN LStrip(SubSeq(s, 2, Len(s)))
    ELSE s

RECURSIVE RStrip(_)
RStrip(s) ==
    IF Len(s) > 0 /\ IsSpace(SubSeq(s, Len(s), Len(s)))
    THEN RStrip(SubSeq(s, 1, Len(s) - 1))
    ELSE s

Strip(s) == RStrip(LStrip(s))

StartsWith(s, p) == Len(s) >= Len(p) /\ SubSeq(s, 1, Len(p)) = p

Contains(s, p) ==
    \E i \in 1..(Len(s) - Len(p) + 1) : SubSeq(s, i, i + Len(p) - 1) = p

\* The lines of acc \o s, one step for each line.
RECURSIVE SplitLines(_, _)
SplitLines(s, acc) ==
    IF ~Contains(s, "\n") THEN << acc \o s >>
    ELSE LET p == CHOOSE i \in 1..Len(s) :
                      /\ SubSeq(s, i, i) = "\n"
                      /\ \A j \in 1..(i - 1) : SubSeq(s, j, j) # "\n"
         IN  << acc \o SubSeq(s, 1, p - 1) >>
                \o SplitLines(SubSeq(s, p + 1, Len(s)), "")

(***************************************************************************)
(* The command gateway: HuaweiSSHClient.                                   *)
(***************************************************************************)
ALLOWED_COMMANDS ==
    << "display bgp peer",
       "display bgp routing-table peer",
       "display interface brief",
       "display interface",
       "display interface statistics",
       "display ip interface brief",
       "display cpu-usage",
       "display memory-usage",
       "display version",
       "display current-configuration interface" >>

FORBIDDEN_KEYWORDS ==
    << "system-view", "interface ", "undo ", "shutdown", "reset", "save",
       "commit", "delete", "set ", "config", "configure", "write", "erase",
       "clear" >>

\* Command strings the callers pass to execute_command.
Commands ==
    { "display interface brief",
      " Display Version",
      "display version\nsystem-view",
      "system-view" }

\* The callers of execute_command: the two collection jobs' worker threads.
Threads == {"collect_bgp", "collect_interfaces"}

NoThread == "none"
NoCall == [cmd |-> "", outcome |-> "none", io |-> 0]

VARIABLES
    connected,   \* self.connected
    client,      \* self.client: 0 is None, else the id of the SSHClient object
    shell,       \* self.shell: 0 is None, else the id of the remote session
    lock,        \* holder of self._command_lock, or NoThread
    pc,          \* each caller's position in execute_command
    cmd,         \* each caller's command argument
    success,     \* each caller's local `success`
    output,      \* each caller's local `output`: the responses read
    io,          \* network operations the caller's current call has made
    calls,       \* execute_command calls started
    nextId,      \* next client/session id
    alive,       \* remote sessions that are open
    owed,        \* per session: commands received and not yet answered
    rx,          \* per session: responses in the receive buffer
    connects,    \* connection attempts made on the network
    sent,        \* what was written to a session: [sess, text]
    audit,       \* ssh_commands_log rows
    last,        \* each caller's last finished call: [cmd, outcome, io]
    done,        \* each caller's outcomes, in call order
    detected     \* sessions on which a call has failed in send

VARIABLES
    db,       \* the committed content of the tables
    now,      \* the UTC clock
    tz,       \* the host's offset from UTC
    runs,     \* reconcile runs made
    run,      \* the last reconcile run: what was asked and how it ended
    before    \* the tables as they were when the last reconcile run began

dbVars == << db, now, tz, runs, run, before >>

VARIABLES
    schedRunning,   \* scheduler.running
    instances,      \* per job id: instances of the job that are running
    triggers,       \* trigger firings so far
    skipped,        \* per job id: firings that started no execution
    outcomes,       \* per job id: how its executions ended, in order
    escaped,        \* job ids whose function let an exception out
    listings,       \* per job id: executions of its primary listing command
    batches         \* per job id: calls of its reconciler

schedVars == << schedRunning, instances, triggers, skipped, outcomes,
                escaped, listings, batches >>


VARIABLES
    given,      \* the argument of the last call of a parser or a collector
    returned,   \* what that call returned
    txn,        \* the reconciler's open transaction: its uncommitted work
    seen        \* what the last read transaction of a reader returned

svcVars == << given, returned, txn, seen >>

gwVars == << connected, client, shell, lock, pc, cmd, success, output, io,
             calls, nextId, alive, owed, rx, connects, sent, audit, last,
             done, detected >>

vars == << gwVars, dbVars, schedVars, svcVars >>

Sessions == 1..(2 * MaxCalls)

\* _validate_command's result for `command`, with the deny-list consulted
\* after the allow-list (a deny-list keyword rejects).
ValidateCommandDenyList(command) ==
    LET command_lower == Strip(Lower(command))
    IN  /\ \E i \in DOMAIN ALLOWED_COMMANDS :
              StartsWith(command_lower, Lower(ALLOWED_COMMANDS[i]))
        /\ \A k \in DOMAIN FORBIDDEN_KEYWORDS :
              ~Contains(command_lower, FORBIDDEN_KEYWORDS[k])

\* _validate_command: the loop over ALLOWED_COMMANDS from index i on; TRUE
\* when the command is accepted (the method returns), FALSE when it raises.
RECURSIVE AllowedFrom(_, _)
AllowedFrom(command_lower, i) ==
    IF i > Len(ALLOWED_COMMANDS) THEN FALSE
    ELSE IF StartsWith(command_lower, Lower(ALLOWED_COMMANDS[i])) THEN TRUE
    ELSE AllowedFrom(command_lower, i + 1)

\* The command has to be an entry of the allow-list, not begin with one.
ValidateCommandExact(command) ==
    LET command_lower == Strip(Lower(command))
    IN  \E i \in DOMAIN ALLOWED_COMMANDS :
           command_lower = Lower(ALLOWED_COMMANDS[i])

ValidateCommand(command) ==
    LET command_lower == Strip(Lower(command))
    IN  AllowedFrom(command_lower, 1)

\* The end of a call: what the caller sees.
Finished(t, c, outcome, n) ==
    /\ pc' = [pc EXCEPT ![t] = "idle"]
    /\ last' = [last EXCEPT ![t] = [cmd |-> c, outcome |-> outcome, io |-> n]]
    /\ done' = [done EXCEPT ![t] = Append(@, outcome)]

\* A rejecting call that has already tried to connect (validation placed
\* after the connection check).
RejectedAfterConnect(t, c) ==
    /\ connects' = connects + 1
    /\ io' = [io EXCEPT ![t] = 1]
    /\ Finished(t, c, "rejected", 1)
    /\ UNCHANGED << connected, client, shell, lock, success, output, nextId,
                    alive, owed, rx, sent, audit >>

\* _validate_command raised: execute_command propagates SSHClientError
\* from line 219, before the connection check and before the lock.
Rejected(t, c) ==
    /\ io' = [io EXCEPT ![t] = 0]
    /\ Finished(t, c, "rejected", 0)
    /\ UNCHANGED << connected, client, shell, lock, success, output, nextId,
                    alive, owed, rx, connects, sent, audit >>

\* execute_command, entry: validation.
ExecuteCommand(t, c) ==
    /\ pc[t] = "idle"
    /\ calls < MaxCalls
    /\ calls' = calls + 1
    /\ cmd' = [cmd EXCEPT ![t] = c]
    /\ IF ValidateCommand(c)
       THEN /\ pc' = [pc EXCEPT ![t] = "check"]
            /\ io' = [io EXCEPT ![t] = 0]
            /\ UNCHANGED << connected, client, shell, lock, success, output,
                            nextId, alive, owed, rx, connects, sent, audit,
                            last, done >>
       ELSE Rejected(t, c)
    /\ UNCHANGED << detected, dbVars, schedVars, svcVars >>

\* `if not self.connected or not self.shell: self.connect()` and connect's
\* own `if self.connected and self.client: return`.
NeedsConnect == (~connected \/ shell = 0) /\ ~(connected /\ client # 0)

CheckConnected(t) ==
    /\ pc[t] = "check"
    /\ ~NeedsConnect
    /\ pc' = [pc EXCEPT ![t] = "lock"]
    /\ UNCHANGED << connected, client, shell, lock, cmd, success, output, io,
                    calls, nextId, alive, owed, rx, connects, sent, audit,
                    last, done >>
    /\ UNCHANGED << detected, dbVars, schedVars, svcVars >>

\* connect(): a new SSHClient object is stored, then the network connect
\* is attempted.
ConnectBegin(t) ==
    /\ pc[t] = "check"
    /\ NeedsConnect
    /\ client' = nextId
    /\ nextId' = nextId + 1
    /\ connects' = connects + 1
    /\ io' = [io EXCEPT ![t] = @ + 1]
    /\ pc' = [pc EXCEPT ![t] = "connecting"]
    /\ UNCHANGED << connected, shell, lock, cmd, success, output, calls,
                    alive, owed, rx, sent, audit, last, done >>
    /\ UNCHANGED << detected, dbVars, schedVars, svcVars >>

\* connect() succeeded: invoke_shell, the banner is drained, connected.
ConnectOk(t) ==
    /\ pc[t] = "connecting"
    /\ shell' = nextId
    /\ nextId' = nextId + 1
    /\ alive' = alive \cup {nextId}
    /\ connected' = TRUE
    /\ pc' = [pc EXCEPT ![t] = "lock"]
    /\ UNCHANGED << client, lock, cmd, success, output, io, calls, owed, rx,
                    connects, sent, audit, last, done >>
    /\ UNCHANGED << detected, dbVars, schedVars, svcVars >>

\* connect() raised SSHClientError: it leaves execute_command before the
\* lock and before the try block, so nothing is written to the audit log.
ConnectFail(t) ==
    /\ pc[t] = "connecting"
    /\ Finished(t, cmd[t], "connect_failed", io[t])
    /\ UNCHANGED << connected, client, shell, lock, cmd, success, output, io,
                    calls, nextId, alive, owed, rx, connects, sent, audit >>
    /\ UNCHANGED << detected, dbVars, schedVars, svcVars >>

\* The gate is taken whether or not another caller holds it.
LockIgnored == TRUE

\* `with self._command_lock:` can be entered.
LockFree == lock = NoThread

AcquireLock(t) ==
    /\ pc[t] = "lock"
    /\ LockFree
    /\ lock' = t
    /\ success' = [success EXCEPT ![t] = FALSE]
    /\ output' = [output EXCEPT ![t] = <<>>]
    /\ pc' = [pc EXCEPT ![t] = "send"]
    /\ UNCHANGED << connected, client, shell, cmd, io, calls, nextId, alive,
                    owed, rx, connects, sent, audit, last, done >>
    /\ UNCHANGED << detected, dbVars, schedVars, svcVars >>

\* The text written to the session.
Transmitted(command) == command \o "\n"

\* Inside the try: the receive buffer is drained, then the command is sent.
SendCommand(t) ==
    /\ pc[t] = "send"
    /\ shell # 0 /\ shell \in alive
    /\ rx' = [rx EXCEPT ![shell] = <<>>]
    /\ sent' = Append(sent, [sess |-> shell, text |-> Transmitted(cmd[t])])
    /\ owed' = [owed EXCEPT ![shell] = Append(@, cmd[t])]
    /\ io' = [io EXCEPT ![t] = @ + 1]
    /\ pc' = [pc EXCEPT ![t] = "recv"]
    /\ UNCHANGED << connected, client, shell, lock, cmd, success, output,
                    calls, nextId, alive, connects, audit, last, done >>
    /\ UNCHANGED << detected, dbVars, schedVars, svcVars >>

\* send (or recv_ready on a None shell) raised: the except branch.
SendError(t) ==
    /\ pc[t] = "send"
    /\ shell = 0 \/ shell \notin alive
    /\ pc' = [pc EXCEPT ![t] = "finally"]
    /\ UNCHANGED << connected, client, shell, lock, cmd, success, output, io,
                    calls, nextId, alive, owed, rx, connects, sent, audit,
                    last, done >>
    /\ detected' = detected \cup {shell}
    /\ UNCHANGED << dbVars, schedVars, svcVars >>

\* The wait loop ended with data: everything in the buffer is read.
ReceiveOutput(t) ==
    /\ pc[t] = "recv"
    /\ shell # 0 /\ rx[shell] # <<>>
    /\ output' = [output EXCEPT ![t] = rx[shell]]
    /\ rx' = [rx EXCEPT ![shell] = <<>>]
    /\ success' = [success EXCEPT ![t] = TRUE]
    /\ pc' = [pc EXCEPT ![t] = "finally"]
    /\ UNCHANGED << connected, client, shell, lock, cmd, io, calls, nextId,
                    alive, owed, connects, sent, audit, last, done >>
    /\ UNCHANGED << detected, dbVars, schedVars, svcVars >>

\* The wait loop ended after max_wait with nothing to read: the output is
\* empty and success is set all the same.
ReceiveNothing(t) ==
    /\ pc[t] = "recv"
    /\ shell # 0 /\ rx[shell] = <<>>
    /\ output' = [output EXCEPT ![t] = <<>>]
    /\ success' = [success EXCEPT ![t] = TRUE]
    /\ pc' = [pc EXCEPT ![t] = "finally"]
    /\ UNCHANGED << connected, client, shell, lock, cmd, io, calls, nextId,
                    alive, owed, rx, connects, sent, audit, last, done >>
    /\ UNCHANGED << detected, dbVars, schedVars, svcVars >>

\* _log_command_execution: the INSERT INTO ssh_commands_log, or nothing
\* when the write raises (the exception is logged and dropped).
AuditAfter(log, command, ok, written) ==
    IF written THEN Append(log, [command |-> command, success |-> ok])
    ELSE log

\* The exception of a failed audit write leaves the finally block: the
\* call raises whatever the command did.
LogRaisesAndRelease(t, written) ==
    /\ pc[t] = "finally"
    /\ audit' = IF written
                THEN Append(audit, [command |-> cmd[t], success |-> success[t]])
                ELSE audit
    /\ lock' = NoThread
    /\ Finished(t, cmd[t],
                IF success[t] /\ written THEN "returned" ELSE "error", io[t])
    /\ UNCHANGED << connected, client, shell, cmd, success, output, io, calls,
                    nextId, alive, owed, rx, connects, sent >>
    /\ UNCHANGED << detected, dbVars, schedVars, svcVars >>

\* The call ends and the lock stays with the caller.
LogAndKeepLock(t, written) ==
    /\ pc[t] = "finally"
    /\ audit' = IF written
                THEN Append(audit, [command |-> cmd[t], success |-> success[t]])
                ELSE audit
    /\ Finished(t, cmd[t], IF success[t] THEN "returned" ELSE "error", io[t])
    /\ UNCHANGED << connected, client, shell, lock, cmd, success, output, io,
                    calls, nextId, alive, owed, rx, connects, sent >>
    /\ UNCHANGED << detected, dbVars, schedVars, svcVars >>

\* finally: _log_command_execution (a failed write is swallowed), then the
\* lock is released and the call returns or raises.
LogAndRelease(t, written) ==
    /\ pc[t] = "finally"
    /\ audit' = AuditAfter(audit, cmd[t], success[t], written)
    /\ lock' = NoThread
    /\ Finished(t, cmd[t], IF success[t] THEN "returned" ELSE "error", io[t])
    /\ UNCHANGED << connected, client, shell, cmd, success, output, io, calls,
                    nextId, alive, owed, rx, connects, sent >>
    /\ UNCHANGED << detected, dbVars, schedVars, svcVars >>

\* The device answers the oldest command it has received on a session.
DeviceRespond(s) ==
    /\ s \in alive
    /\ owed[s] # <<>>
    /\ rx' = [rx EXCEPT ![s] = Append(@, Head(owed[s]))]
    /\ owed' = [owed EXCEPT ![s] = Tail(@)]
    /\ UNCHANGED << connected, client, shell, lock, pc, cmd, success, output,
                    io, calls, nextId, alive, connects, sent, audit, last,
                    done >>
    /\ UNCHANGED << detected, dbVars, schedVars, svcVars >>

\* The remote end closes a session.
SessionDrop(s) ==
    /\ s \in alive
    /\ alive' = alive \ {s}
    /\ UNCHANGED << connected, client, shell, lock, pc, cmd, success, output,
                    io, calls, nextId, owed, rx, connects, sent, audit, last,
                    done >>
    /\ UNCHANGED << detected, dbVars, schedVars, svcVars >>

InitGateway ==
    /\ connected = FALSE
    /\ client = 0
    /\ shell = 0
    /\ lock = NoThread
    /\ pc = [t \in Threads |-> "idle"]
    /\ cmd = [t \in Threads |-> ""]
    /\ success = [t \in Threads |-> FALSE]
    /\ output = [t \in Threads |-> <<>>]
    /\ io = [t \in Threads |-> 0]
    /\ calls = 0
    /\ nextId = 1
    /\ alive = {}
    /\ owed = [s \in Sessions |-> <<>>]
    /\ rx = [s \in Sessions |-> <<>>]
    /\ connects = 0
    /\ sent = <<>>
    /\ audit = <<>>
    /\ last = [t \in Threads |-> NoCall]
    /\ done = [t \in Threads |-> <<>>]
    /\ detected = {}

NextGateway ==
    \/ \E t \in Threads, c \in Commands : ExecuteCommand(t, c)
    \/ \E t \in Threads : CheckConnected(t)
    \/ \E t \in Threads : ConnectBegin(t)
    \/ \E t \in Threads : ConnectOk(t)
    \/ \E t \in Threads : ConnectFail(t)
    \/ \E t \in Threads : AcquireLock(t)
    \/ \E t \in Threads : SendCommand(t)
    \/ \E t \in Threads : SendError(t)
    \/ \E t \in Threads : ReceiveOutput(t)
    \/ \E t \in Threads : ReceiveNothing(t)
    \/ \E t \in Threads : LogAndRelease(t, TRUE)
    \/ \E s \in Sessions : DeviceRespond(s)
    \/ \E s \in Sessions : SessionDrop(s)


(***************************************************************************)
(* The store: the SQLite tables, each a sequence of rows in rowid order.   *)
(* Timestamps are minutes.  `now` is UTC; datetime.now() is the host's     *)
(* local time, now + tz.                                                   *)
(***************************************************************************)

EmptyDB ==
    [ bgp_sessions |-> <<>>,
      bgp_status_history |-> <<>>,
      interfaces |-> <<>>,
      interface_traffic_history |-> <<>>,
      events |-> <<>> ]

None == [none |-> TRUE]

NoRun ==
    [ kind |-> "none", outcome |-> "none", snapshot |-> <<>>, at |-> 0,
      processed |-> 0, repeat |-> FALSE ]

\* datetime.now().isoformat(), to the minute
LocalNow == now + tz

\* cursor.fetchone() of SELECT ... WHERE <key column> = key
RECURSIVE FetchFrom(_, _, _, _)
FetchFrom(rows, col, key, i) ==
    IF i > Len(rows) THEN None
    ELSE IF rows[i][col] = key THEN rows[i]
    ELSE FetchFrom(rows, col, key, i + 1)

\* The SELECT reads the committed table, not the transaction's own writes.
FetchCommitted(rows, col, key) ==
    FetchFrom(IF col = "peer_ip" THEN db.bgp_sessions ELSE db.interfaces,
              col, key, 1)

FetchOne(rows, col, key) == FetchFrom(rows, col, key, 1)

\* get_connection, normal exit after conn.commit(): the work is stored.
Commit(stored, work) == work

\* The transaction's writes stay although the batch raised.
RollbackKeepsWork(stored, work) == work

\* get_connection, `except Exception: conn.rollback()`: the work is dropped.
Rollback(stored, work) == stored

(***************************************************************************)
(* The peer reconciler: update_bgp_in_database.                            *)
(***************************************************************************)
\* A peer observed as down is classified with the other statuses.
BgpEventClassNoDown(new_status) ==
    IF Lower(new_status) = "established"
    THEN [event_type |-> "bgp_up", severity |-> "info"]
    ELSE [event_type |-> "bgp_flapping", severity |-> "warning"]

\* _create_bgp_event: type and severity from the new status.
BgpEventClass(new_status) ==
    IF Lower(new_status) = "established"
    THEN [event_type |-> "bgp_up", severity |-> "info"]
    ELSE IF Lower(new_status) = "down"
    THEN [event_type |-> "bgp_down", severity |-> "critical"]
    ELSE [event_type |-> "bgp_flapping", severity |-> "warning"]

CreateBgpEvent(d, peer_ip, old_status, new_status, timestamp) ==
    [d EXCEPT !.events = Append(@,
        [ timestamp |-> timestamp,
          event_type |-> BgpEventClass(new_status).event_type,
          severity |-> BgpEventClass(new_status).severity,
          source |-> "BGP:" \o peer_ip,
          old_status |-> old_status,
          new_status |-> new_status ])]

\* An event is written for every known key, changed or not.
StatusChangedAlways(existing, status) ==
    existing # None

\* `if existing:` ... `if old_status != session.status:`
StatusChanged(existing, status) ==
    existing # None /\ existing.status # status

\* The UPDATE leaves the stored status as it was.
UpdateBgpSessionKeepsStatus(d, session, current_time) ==
    [d EXCEPT !.bgp_sessions =
        [i \in DOMAIN @ |->
            IF @[i].peer_ip = session.peer_ip
            THEN [@[i] EXCEPT !.uptime_seconds = session.uptime_seconds,
                              !.prefixes_received = session.prefixes_received,
                              !.prefixes_sent = session.prefixes_sent,
                              !.last_updated = current_time]
            ELSE @[i]]]

\* The UPDATE without its WHERE clause: every row is written.
UpdateBgpSessionEveryRow(d, session, current_time) ==
    [d EXCEPT !.bgp_sessions =
        [i \in DOMAIN @ |->
            [@[i] EXCEPT !.status = session.status,
                         !.uptime_seconds = session.uptime_seconds,
                         !.prefixes_received = session.prefixes_received,
                         !.prefixes_sent = session.prefixes_sent,
                         !.last_updated = current_time]]]

\* UPDATE bgp_sessions SET ... WHERE peer_ip = ?
UpdateBgpSession(d, session, current_time) ==
    [d EXCEPT !.bgp_sessions =
        [i \in DOMAIN @ |->
            IF @[i].peer_ip = session.peer_ip
            THEN [@[i] EXCEPT !.status = session.status,
                              !.uptime_seconds = session.uptime_seconds,
                              !.prefixes_received = session.prefixes_received,
                              !.prefixes_sent = session.prefixes_sent,
                              !.last_updated = current_time]
            ELSE @[i]]]

\* INSERT INTO bgp_sessions
InsertBgpSession(d, session, current_time) ==
    [d EXCEPT !.bgp_sessions = Append(@,
        [ peer_ip |-> session.peer_ip,
          peer_asn |-> session.peer_asn,
          status |-> session.status,
          uptime_seconds |-> session.uptime_seconds,
          prefixes_received |-> session.prefixes_received,
          prefixes_sent |-> session.prefixes_sent,
          last_state_change |-> current_time,
          last_updated |-> current_time,
          created_at |-> current_time ])]

\* The history row is written with the counters at zero.
InsertBgpHistoryZero(d, session, current_time) ==
    [d EXCEPT !.bgp_status_history = Append(@,
        [ peer_ip |-> session.peer_ip,
          status |-> session.status,
          prefixes_received |-> 0,
          prefixes_sent |-> 0,
          timestamp |-> current_time ])]

\* INSERT INTO bgp_status_history
InsertBgpHistory(d, session, current_time) ==
    [d EXCEPT !.bgp_status_history = Append(@,
        [ peer_ip |-> session.peer_ip,
          status |-> session.status,
          prefixes_received |-> session.prefixes_received,
          prefixes_sent |-> session.prefixes_sent,
          timestamp |-> current_time ])]

\* One pass of the loop body for `session`.  `raises` names the statement
\* that raises: "select", "upsert" (the event, if any, is written),
\* "history" (the upsert is done), or "none".
BgpSessionWork(d, session, current_time, raises) ==
    LET existing == FetchOne(d.bgp_sessions, "peer_ip", session.peer_ip)
        d1 == IF StatusChanged(existing, session.status)
              THEN CreateBgpEvent(d, session.peer_ip, existing.status,
                                  session.status, current_time)
              ELSE d
        d2 == IF existing # None
              THEN UpdateBgpSession(d1, session, current_time)
              ELSE InsertBgpSession(d1, session, current_time)
        d3 == InsertBgpHistory(d2, session, current_time)
    IN  CASE raises = "select" -> d
          [] raises = "upsert" -> d1
          [] raises = "history" -> d2
          [] OTHER -> d3

\* The loop over the sessions from index i on; the pass at failAt raises
\* and leaves the loop (failAt = 0: no pass raises).
RECURSIVE BgpBatch(_, _, _, _, _, _)
BgpBatch(d, sessions, i, current_time, failAt, raises) ==
    IF i > Len(sessions) THEN d
    ELSE IF i = failAt
         THEN BgpSessionWork(d, sessions[i], current_time, raises)
         ELSE BgpBatch(BgpSessionWork(d, sessions[i], current_time, "none"),
                       sessions, i + 1, current_time, failAt, raises)

Statements == {"select", "upsert", "history"}

\* What the run leaves in `run`.
RunRecord(kind, snapshot, failAt) ==
    [ kind |-> kind,
      outcome |-> IF snapshot = <<>> THEN "skipped"
                  ELSE IF failAt = 0 THEN "committed" ELSE "rolled_back",
      snapshot |-> IF failAt = 0 THEN snapshot ELSE <<>>,
      at |-> LocalNow,
      processed |-> IF failAt = 0 THEN Len(snapshot) ELSE failAt - 1,
      repeat |-> /\ failAt = 0 /\ snapshot # <<>>
                 /\ run.kind = kind /\ run.outcome = "committed"
                 /\ run.snapshot = snapshot ]

\* update_bgp_in_database(sessions); the clock moves on by dt afterwards.
UpdateBgpInDatabase(sessions, failAt, raises, dt) ==
    /\ failAt \in 0..Len(sessions)
    /\ LET work == BgpBatch(db, sessions, 1, LocalNow, failAt, raises)
       IN  db' = IF sessions = <<>> THEN db
                 ELSE IF failAt = 0 THEN Commit(db, work)
                 ELSE Rollback(db, work)
    /\ before' = db
    /\ run' = RunRecord("bgp", sessions, failAt)
    /\ now' = now + dt
    /\ UNCHANGED << tz, gwVars, svcVars >>

\* job_collect_bgp: one collection cycle hands its snapshot to the
\* reconciler.
JobCollectBgp(sessions, failAt, raises, dt) ==
    /\ runs < MaxRuns
    /\ runs' = runs + 1
    /\ UpdateBgpInDatabase(sessions, failAt, raises, dt)
    /\ UNCHANGED schedVars

(***************************************************************************)
(* The interface reconciler: update_interfaces_in_database.                *)
(***************************************************************************)
\* _create_interface_event: type and severity from the new status.
InterfaceEventClass(new_status) ==
    IF Lower(new_status) = "up"
    THEN [event_type |-> "interface_up", severity |-> "info"]
    ELSE IF Lower(new_status) \in {"down", "admin_down"}
    THEN [event_type |-> "interface_down", severity |-> "critical"]
    ELSE [event_type |-> "interface_flapping", severity |-> "warning"]

CreateInterfaceEvent(d, interface_name, old_status, new_status, timestamp) ==
    [d EXCEPT !.events = Append(@,
        [ timestamp |-> timestamp,
          event_type |-> InterfaceEventClass(new_status).event_type,
          severity |-> InterfaceEventClass(new_status).severity,
          source |-> "Interface:" \o interface_name,
          old_status |-> old_status,
          new_status |-> new_status ])]

\* UPDATE interfaces SET ... WHERE name = ?
UpdateInterface(d, interface, current_time) ==
    [d EXCEPT !.interfaces =
        [i \in DOMAIN @ |->
            IF @[i].name = interface.name
            THEN [@[i] EXCEPT
                    !.description = interface.description,
                    !.status = interface.status,
                    !.bandwidth_capacity = interface.bandwidth_capacity,
                    !.bandwidth_in_bps = interface.bandwidth_in_bps,
                    !.bandwidth_out_bps = interface.bandwidth_out_bps,
                    !.packets_in_pps = interface.packets_in_pps,
                    !.packets_out_pps = interface.packets_out_pps,
                    !.errors_in = interface.errors_in,
                    !.errors_out = interface.errors_out,
                    !.discards_in = interface.discards_in,
                    !.discards_out = interface.discards_out,
                    !.utilization_in_percent = interface.utilization_in_percent,
                    !.utilization_out_percent = interface.utilization_out_percent,
                    !.last_updated = current_time]
            ELSE @[i]]]

\* INSERT INTO interfaces
InsertInterface(d, interface, current_time) ==
    [d EXCEPT !.interfaces = Append(@,
        [ name |-> interface.name,
          description |-> interface.description,
          status |-> interface.status,
          bandwidth_capacity |-> interface.bandwidth_capacity,
          bandwidth_in_bps |-> interface.bandwidth_in_bps,
          bandwidth_out_bps |-> interface.bandwidth_out_bps,
          packets_in_pps |-> interface.packets_in_pps,
          packets_out_pps |-> interface.packets_out_pps,
          errors_in |-> interface.errors_in,
          errors_out |-> interface.errors_out,
          discards_in |-> interface.discards_in,
          discards_out |-> interface.discards_out,
          utilization_in_percent |-> interface.utilization_in_percent,
          utilization_out_percent |-> interface.utilization_out_percent,
          last_state_change |-> current_time,
          last_updated |-> current_time,
          created_at |-> current_time ])]

\* INSERT INTO interface_traffic_history
InsertInterfaceHistory(d, interface, current_time) ==
    [d EXCEPT !.interface_traffic_history = Append(@,
        [ interface_name |-> interface.name,
          bandwidth_in_bps |-> interface.bandwidth_in_bps,
          bandwidth_out_bps |-> interface.bandwidth_out_bps,
          packets_in_pps |-> interface.packets_in_pps,
          packets_out_pps |-> interface.packets_out_pps,
          errors_in |-> interface.errors_in,
          errors_out |-> interface.errors_out,
          utilization_in_percent |-> interface.utilization_in_percent,
          utilization_out_percent |-> interface.utilization_out_percent,
          timestamp |-> current_time ])]

\* One pass of the loop body for `interface`; `raises` as in BgpSessionWork.
InterfaceWork(d, interface, current_time, raises) ==
    LET existing == FetchOne(d.interfaces, "name", interface.name)
        d1 == IF StatusChanged(existing, interface.status)
              THEN CreateInterfaceEvent(d, interface.name, existing.status,
                                        interface.status, current_time)
              ELSE d
        d2 == IF existing # None
              THEN UpdateInterface(d1, interface, current_time)
              ELSE InsertInterface(d1, interface, current_time)
        d3 == InsertInterfaceHistory(d2, interface, current_time)
    IN  CASE raises = "select" -> d
          [] raises = "upsert" -> d1
          [] raises = "history" -> d2
          [] OTHER -> d3

RECURSIVE InterfaceBatch(_, _, _, _, _, _)
InterfaceBatch(d, interfaces, i, current_time, failAt, raises) ==
    IF i > Len(interfaces) THEN d
    ELSE IF i = failAt
         THEN InterfaceWork(d, interfaces[i], current_time, raises)
         ELSE InterfaceBatch(
                  InterfaceWork(d, interfaces[i], current_time, "none"),
                  interfaces, i + 1, current_time, failAt, raises)

\* update_interfaces_in_database(interfaces); the clock moves on by dt
\* afterwards.
UpdateInterfacesInDatabase(interfaces, failAt, raises, dt) ==
    /\ failAt \in 0..Len(interfaces)
    /\ LET work == InterfaceBatch(db, interfaces, 1, LocalNow, failAt, raises)
       IN  db' = IF interfaces = <<>> THEN db
                 ELSE IF failAt = 0 THEN Commit(db, work)
                 ELSE Rollback(db, work)
    /\ before' = db
    /\ run' = RunRecord("interface", interfaces, failAt)
    /\ now' = now + dt
    /\ UNCHANGED << tz, gwVars, svcVars >>

\* job_collect_interfaces: one collection cycle hands its snapshot to the
\* reconciler.
JobCollectInterfaces(interfaces, failAt, raises, dt) ==
    /\ runs < MaxRuns
    /\ runs' = runs + 1
    /\ UpdateInterfacesInDatabase(interfaces, failAt, raises, dt)
    /\ UNCHANGED schedVars

(***************************************************************************)
(* Snapshots handed to the reconcilers.                                    *)
(***************************************************************************)
BGPSession(peer_ip, status, prefixes_received) ==
    [ peer_ip |-> peer_ip, peer_asn |-> "65001", status |-> status,
      uptime_seconds |-> IF status = "Established" THEN 323 ELSE 0,
      prefixes_received |-> prefixes_received,
      prefixes_sent |-> IF status = "Established" THEN 10 ELSE 0 ]

Interface(name, status, errors_in, errors_out) ==
    [ name |-> name, description |-> "uplink", status |-> status,
      bandwidth_capacity |-> 1000,
      bandwidth_in_bps |-> IF status = "up" THEN 500 ELSE 0,
      bandwidth_out_bps |-> IF status = "up" THEN 250 ELSE 0,
      packets_in_pps |-> IF status = "up" THEN 40 ELSE 0,
      packets_out_pps |-> IF status = "up" THEN 20 ELSE 0,
      errors_in |-> errors_in, errors_out |-> errors_out,
      discards_in |-> 0, discards_out |-> 0,
      utilization_in_percent |-> IF status = "up" THEN 50 ELSE 0,
      utilization_out_percent |-> IF status = "up" THEN 25 ELSE 0 ]

SeqsUpTo2(R) ==
    {<<>>} \cup {<<r>> : r \in R} \cup {<<r1, r2>> : r1 \in R, r2 \in R}

BgpRecords ==
    { BGPSession("10.0.0.1", "Established", 120),
      BGPSession("10.0.0.1", "Established", 150),
      BGPSession("10.0.0.1", "Down", 0),
      BGPSession("10.0.0.1", "Idle", 0),
      BGPSession("10.0.0.2", "Established", 120) }

InterfaceRecords ==
    { Interface("GE0/0/1", "up", 60, 50),
      Interface("GE0/0/1", "down", 0, 0),
      Interface("GE0/0/1", "admin_down", 0, 0),
      Interface("GE0/0/1", "administratively", 0, 0),
      Interface("GE0/0/10", "up", 0, 0) }

(***************************************************************************)
(* The scheduler: setup_scheduler and the four job functions.              *)
(***************************************************************************)
JobIds ==
    {"collect_bgp", "collect_interfaces", "check_alerts", "cleanup_old_data"}

\* add_job(..., max_instances=1), the same for the four jobs
max_instances == 1

InitScheduler ==
    /\ schedRunning = FALSE
    /\ instances = [j \in JobIds |-> 0]
    /\ triggers = 0
    /\ skipped = [j \in JobIds |-> 0]
    /\ outcomes = [j \in JobIds |-> <<>>]
    /\ escaped = {}
    /\ listings = [j \in JobIds |-> 0]
    /\ batches = [j \in JobIds |-> 0]

\* No parser or collector has been called.
NoInput == [fn |-> "none"]

\* No transaction is open; nothing has been read.
NoTxn == [open |-> FALSE]
NoRead == [read |-> FALSE]

InitServices ==
    /\ given = NoInput
    /\ returned = NoInput
    /\ txn = NoTxn
    /\ seen = NoRead

InitStore ==
    /\ db = EmptyDB
    /\ now = 0
    /\ tz = 0
    /\ runs = 0
    /\ run = NoRun
    /\ before = EmptyDB

(***************************************************************************)
(* Specifications.                                                         *)
(***************************************************************************)
\* The state after construction: no connection, empty tables, the
\* scheduler not started.
Init == InitGateway /\ InitStore /\ InitScheduler /\ InitServices

\* The gateway with its callers and the device.
SpecGateway == Init /\ [][NextGateway]_vars

\* The two reconcilers, one cycle after the other.
NextReconcile ==
    \/ \E sessions \in SeqsUpTo2(BgpRecords) :
          JobCollectBgp(sessions, 0, "none", 1)
    \/ \E sessions \in SeqsUpTo2(BgpRecords) :
          \E failAt \in 1..Len(sessions), raises \in Statements :
             JobCollectBgp(sessions, failAt, raises, 1)
    \/ \E interfaces \in SeqsUpTo2(InterfaceRecords) :
          JobCollectInterfaces(interfaces, 0, "none", 1)
    \/ \E interfaces \in SeqsUpTo2(InterfaceRecords) :
          \E failAt \in 1..Len(interfaces), raises \in Statements :
             JobCollectInterfaces(interfaces, failAt, raises, 1)

SpecReconcile == Init /\ [][NextReconcile]_vars

(***************************************************************************)
(* The alert evaluator: check_all_alerts.  The message and details of an   *)
(* event are text for the reader and are left out of the rows.             *)
(***************************************************************************)
\* settings
ALERT_BGP_DOWN_ENABLED == TRUE
ALERT_INTERFACE_DOWN_ENABLED == TRUE
ALERT_ERROR_THRESHOLD == 100

\* The host's offset from UTC, in minutes.
HostOffsets == {-180, 0, 180}

\* The window test on the stored text of the timestamp alone, whatever
\* clock wrote it, against the UTC clock.
\* _has_recent_event: COUNT(*) > 0 of the events with the type, a source
\* LIKE %source_filter% (a substring, letters compared without case) and
\* datetime(timestamp) > datetime('now', '-minutes minutes'), which is UTC.
HasRecentEvent(d, event_type, source_filter, minutes) ==
    \E k \in DOMAIN d.events :
       /\ d.events[k].event_type = event_type
       /\ Contains(Lower(d.events[k].source), Lower(source_filter))
       /\ d.events[k].timestamp > now - minutes

\* create_event: the row is stamped with datetime.now(), the local time.
CreateEvent(d, event_type, severity, source) ==
    [d EXCEPT !.events = Append(@,
        [ timestamp |-> LocalNow,
          event_type |-> event_type,
          severity |-> severity,
          source |-> source ])]

\* check_bgp_alerts: the loop over the rows selected, from row i on.
RECURSIVE CheckBgpAlertsFrom(_, _, _)
CheckBgpAlertsFrom(d, rows, i) ==
    IF i > Len(rows) THEN d
    ELSE IF /\ rows[i].status # "Established"
            /\ ~HasRecentEvent(d, "bgp_down", rows[i].peer_ip, 5)
         THEN CheckBgpAlertsFrom(
                  CreateEvent(d, "bgp_down", "critical",
                              "BGP:" \o rows[i].peer_ip),
                  rows, i + 1)
         ELSE CheckBgpAlertsFrom(d, rows, i + 1)

CheckBgpAlerts(d) == CheckBgpAlertsFrom(d, d.bgp_sessions, 1)

\* check_interface_alerts
RECURSIVE CheckInterfaceAlertsFrom(_, _, _)
CheckInterfaceAlertsFrom(d, rows, i) ==
    IF i > Len(rows) THEN d
    ELSE IF /\ rows[i].status \in {"down", "admin_down"}
            /\ ~HasRecentEvent(d, "interface_down", rows[i].name, 5)
         THEN CheckInterfaceAlertsFrom(
                  CreateEvent(d, "interface_down", "critical",
                              "Interface:" \o rows[i].name),
                  rows, i + 1)
         ELSE CheckInterfaceAlertsFrom(d, rows, i + 1)

CheckInterfaceAlerts(d) == CheckInterfaceAlertsFrom(d, d.interfaces, 1)

\* `if not _has_recent_event("high_errors", interface_name, minutes=10)`
ErrorAlertDue(d, name) == ~HasRecentEvent(d, "high_errors", name, 10)

\* The rule selects a row whose error count has reached the threshold.
IsErrorCandidateAtThreshold(row) ==
    /\ row.errors_in + row.errors_out >= ALERT_ERROR_THRESHOLD
    /\ row.status = "up"

\* WHERE (errors_in + errors_out) > {threshold} AND status = 'up'
IsErrorCandidate(row) ==
    /\ row.errors_in + row.errors_out > ALERT_ERROR_THRESHOLD
    /\ row.status = "up"

\* check_error_thresholds
RECURSIVE CheckErrorThresholdsFrom(_, _, _)
CheckErrorThresholdsFrom(d, rows, i) ==
    IF i > Len(rows) THEN d
    ELSE IF /\ IsErrorCandidate(rows[i])
            /\ ErrorAlertDue(d, rows[i].name)
         THEN CheckErrorThresholdsFrom(
                  CreateEvent(d, "high_errors", "warning",
                              "Interface:" \o rows[i].name),
                  rows, i + 1)
         ELSE CheckErrorThresholdsFrom(d, rows, i + 1)

CheckErrorThresholds(d) == CheckErrorThresholdsFrom(d, d.interfaces, 1)

\* The settings of the alert evaluator read from the environment.
Settings ==
    [ ALERT_BGP_DOWN_ENABLED |-> ALERT_BGP_DOWN_ENABLED,
      ALERT_INTERFACE_DOWN_ENABLED |-> ALERT_INTERFACE_DOWN_ENABLED ]

\* What the database does to the statements of one rule function: they
\* succeed, the SELECT of the rule raises in execute_query, or the INSERT
\* of create_event raises in execute_write.
RuleFaults == {"none", "query", "write"}
RuleClasses == {"bgp", "interfaces", "errors"}
NoFaults == [c \in RuleClasses |-> "none"]

\* The exception of a failed SELECT leaves the rule function.
LeavesRuleOnQuery(fault) == fault = "query"

\* `except Exception as e: logger.error(...)` closes every rule function,
\* and create_event has one of its own around the INSERT: no exception
\* leaves a rule function.
LeavesRule(fault) == FALSE

\* The rule function is called whatever its flag.
CalledWhateverFlag(flag) == TRUE

\* `if settings.ALERT_BGP_DOWN_ENABLED:` and `if
\* settings.ALERT_INTERFACE_DOWN_ENABLED:`: the rule function is called
\* when its flag is set.
Called(flag) == flag

\* One rule function under a fault: when its SELECT raises the loop is
\* never entered, when the INSERTs raise every create_event of the loop
\* logs the error and writes nothing.
RuleUnder(checked, d, fault) == IF fault = "none" THEN checked ELSE d

\* check_all_alerts under the settings and the faults of its three rule
\* functions: the statements after a call that raised are skipped, and the
\* outer `except Exception` logs what reaches it.
CheckAllAlertsUnder(d, settings, faults) ==
    LET bgpRuns == Called(settings.ALERT_BGP_DOWN_ENABLED)
        d1 == IF bgpRuns
              THEN RuleUnder(CheckBgpAlerts(d), d, faults["bgp"])
              ELSE d
        left1 == bgpRuns /\ LeavesRule(faults["bgp"])
        interfacesRuns == /\ ~left1
                          /\ Called(settings.ALERT_INTERFACE_DOWN_ENABLED)
        d2 == IF interfacesRuns
              THEN RuleUnder(CheckInterfaceAlerts(d1), d1,
                             faults["interfaces"])
              ELSE d1
        left2 == left1 \/ (interfacesRuns /\ LeavesRule(faults["interfaces"]))
        d3 == IF left2 THEN d2
              ELSE RuleUnder(CheckErrorThresholds(d2), d2, faults["errors"])
    IN  [ db |-> d3, raised |-> FALSE ]

CheckAllAlerts(d) == CheckAllAlertsUnder(d, Settings, NoFaults).db

\* job_check_alerts: one run of the evaluator; the clock moves on by dt
\* afterwards.
JobCheckAlerts(dt) ==
    /\ now + dt <= MaxNow
    /\ db' = CheckAllAlerts(db)
    /\ before' = db
    /\ run' = [ kind |-> "alerts", outcome |-> "committed",
                snapshot |-> <<>>, at |-> LocalNow, processed |-> 0,
                repeat |-> FALSE ]
    /\ now' = now + dt
    /\ UNCHANGED << tz, runs, gwVars, schedVars, svcVars >>

(***************************************************************************)
(* The scheduler's operations and the bodies of the jobs.                  *)
(***************************************************************************)
\* start_scheduler
StartScheduler ==
    /\ ~schedRunning
    /\ schedRunning' = TRUE
    /\ UNCHANGED << instances, triggers, skipped, outcomes, escaped,
                    listings, batches >>
    /\ UNCHANGED << gwVars, dbVars, svcVars >>

\* Every firing starts an execution.
SlotAlwaysFree(j) == TRUE

\* The executor's test of the running instances against max_instances.
SlotFree(j) == instances[j] < max_instances

\* The trigger of job j fires: an execution starts in the executor, or the
\* firing is skipped when the job has max_instances executions running.
TriggerJob(j) ==
    /\ schedRunning
    /\ triggers < MaxTriggers
    /\ triggers' = triggers + 1
    /\ IF SlotFree(j)
       THEN /\ instances' = [instances EXCEPT ![j] = @ + 1]
            /\ UNCHANGED skipped
       ELSE /\ skipped' = [skipped EXCEPT ![j] = @ + 1]
            /\ UNCHANGED instances
    /\ UNCHANGED << schedRunning, outcomes, escaped, listings, batches >>
    /\ UNCHANGED << gwVars, dbVars, svcVars >>

\* The job function returns: its execution is over.
Returned(j, outcome) ==
    /\ instances' = [instances EXCEPT ![j] = @ - 1]
    /\ outcomes' = [outcomes EXCEPT ![j] = Append(@, outcome)]
    /\ UNCHANGED << triggers, skipped >>

\* The exception leaves the job function and stops the scheduler.
Propagated(j) ==
    /\ Returned(j, "raised")
    /\ escaped' = escaped \cup {j}
    /\ schedRunning' = FALSE

\* `except Exception as e: logger.error(...)`: the job function returns.
Caught(j) ==
    /\ Returned(j, "caught")
    /\ UNCHANGED << schedRunning, escaped >>

\* The body of job j completed.
Completed(j) ==
    /\ Returned(j, "done")
    /\ UNCHANGED << schedRunning, escaped >>

\* The two collection jobs.
CollectJobs == {"collect_bgp", "collect_interfaces"}

\* What an execution of job j did: `l` executions of the primary listing
\* command and `b` calls of the reconciler.
Did(j, l, b) ==
    /\ listings' = [listings EXCEPT ![j] = @ + l]
    /\ batches' = [batches EXCEPT ![j] = @ + b]

\* The job issues the primary listing command again after it failed and
\* stays in its body.
JobRetries(j) ==
    /\ instances[j] > 0
    /\ listings[j] <= Len(outcomes[j]) + 1
    /\ Did(j, IF j \in CollectJobs THEN 1 ELSE 0, 0)
    /\ IF listings[j] > Len(outcomes[j])
       THEN Caught(j)
       ELSE UNCHANGED << instances, outcomes, triggers, skipped,
                         schedRunning, escaped >>
    /\ UNCHANGED << gwVars, dbVars, svcVars >>

\* The body of job j raises before it has written anything: the primary
\* listing command of a collection job fails and the collector raises;
\* the database of the alert evaluator or of the sweep cannot be opened.
JobFails(j) ==
    /\ instances[j] > 0
    /\ Did(j, IF j \in CollectJobs THEN 1 ELSE 0, 0)
    /\ Caught(j)
    /\ UNCHANGED << gwVars, dbVars, svcVars >>

\* job_collect_bgp: the collection returned `sessions`; the reconciler
\* commits or raises.
RunCollectBgp(sessions, failAt, raises) ==
    /\ instances["collect_bgp"] > 0
    /\ UpdateBgpInDatabase(sessions, failAt, raises, 0)
    /\ IF failAt = 0 THEN Completed("collect_bgp") ELSE Caught("collect_bgp")
    /\ Did("collect_bgp", 1, 1)
    /\ UNCHANGED runs

\* job_collect_interfaces
RunCollectInterfaces(interfaces, failAt, raises) ==
    /\ instances["collect_interfaces"] > 0
    /\ UpdateInterfacesInDatabase(interfaces, failAt, raises, 0)
    /\ IF failAt = 0
       THEN Completed("collect_interfaces")
       ELSE Caught("collect_interfaces")
    /\ Did("collect_interfaces", 1, 1)
    /\ UNCHANGED runs

\* job_check_alerts: check_all_alerts returns.
RunCheckAlerts ==
    /\ instances["check_alerts"] > 0
    /\ db' = CheckAllAlerts(db)
    /\ before' = db
    /\ run' = [ kind |-> "alerts", outcome |-> "committed",
                snapshot |-> <<>>, at |-> LocalNow, processed |-> 0,
                repeat |-> FALSE ]
    /\ Completed("check_alerts")
    /\ UNCHANGED << listings, batches >>
    /\ UNCHANGED << now, tz, runs, gwVars, svcVars >>

\* DELETE FROM <table> WHERE datetime(timestamp) < datetime('now',
\* '-<days> days'), with the clock in minutes.
OlderThan(rows, days) ==
    SelectSeq(rows, LAMBDA r : ~(r.timestamp < now - days * 1440))

\* The sweep also deletes the current-state rows not updated for 30 days.
CleanupStaleRows(d) ==
    [d EXCEPT !.bgp_status_history = OlderThan(@, 30),
              !.interface_traffic_history = OlderThan(@, 30),
              !.events = OlderThan(@, 60),
              !.bgp_sessions =
                  SelectSeq(@, LAMBDA r : ~(r.last_updated < now - 30 * 1440)),
              !.interfaces =
                  SelectSeq(@, LAMBDA r : ~(r.last_updated < now - 30 * 1440))]

\* job_cleanup_old_data: the three DELETEs and the commit.
CleanupOldData(d) ==
    [d EXCEPT !.bgp_status_history = OlderThan(@, 30),
              !.interface_traffic_history = OlderThan(@, 30),
              !.events = OlderThan(@, 60)]

\* The `with db.get_connection()` block of job_cleanup_old_data: the sweep
\* commits, or a statement raises and the transaction is rolled back.
CleanupSweep(fails) ==
    /\ db' = IF fails THEN Rollback(db, CleanupOldData(db))
             ELSE Commit(db, CleanupOldData(db))
    /\ before' = db
    /\ run' = [ kind |-> "cleanup",
                outcome |-> IF fails THEN "rolled_back" ELSE "committed",
                snapshot |-> <<>>, at |-> LocalNow, processed |-> 0,
                repeat |-> FALSE ]
    /\ UNCHANGED << now, tz, runs, gwVars, svcVars >>

\* job_cleanup_old_data, run by the scheduler.
RunCleanup(fails) ==
    /\ instances["cleanup_old_data"] > 0
    /\ CleanupSweep(fails)
    /\ IF fails
       THEN Caught("cleanup_old_data")
       ELSE Completed("cleanup_old_data")
    /\ UNCHANGED << listings, batches >>

\* job_cleanup_old_data
JobCleanupOldData(fails) ==
    /\ CleanupSweep(fails)
    /\ UNCHANGED schedVars

\* Time passes between two jobs.
Elapse(d) ==
    /\ now + d <= MaxDays * 1440
    /\ now' = now + d
    /\ UNCHANGED << db, tz, runs, run, before, gwVars, schedVars, svcVars >>

\* The next cycle collects the snapshot of the last one again.
RepeatCycle ==
    /\ run.outcome = "committed"
    /\ ~run.repeat
    /\ runs' = runs
    /\ IF run.kind = "bgp"
       THEN UpdateBgpInDatabase(run.snapshot, 0, "none", 1)
       ELSE UpdateInterfacesInDatabase(run.snapshot, 0, "none", 1)
    /\ UNCHANGED schedVars

RepeatedBgpRecords ==
    { BGPSession("10.0.0.1", "Established", 120),
      BGPSession("10.0.0.1", "Down", 0),
      BGPSession("10.0.0.2", "Established", 120) }

RepeatedInterfaceRecords ==
    { Interface("GE0/0/1", "up", 60, 50),
      Interface("GE0/0/1", "down", 0, 0),
      Interface("GE0/0/10", "up", 0, 0) }

\* Cycles that succeed, any of them followed by a cycle with the same
\* snapshot.
NextIdempotence ==
    \/ \E sessions \in SeqsUpTo2(RepeatedBgpRecords) :
          JobCollectBgp(sessions, 0, "none", 1)
    \/ \E interfaces \in SeqsUpTo2(RepeatedInterfaceRecords) :
          JobCollectInterfaces(interfaces, 0, "none", 1)
    \/ RepeatCycle

SpecIdempotence == Init /\ [][NextIdempotence]_vars

AlertBgpSnapshots ==
    { << BGPSession("10.0.0.1", "Established", 120) >>,
      << BGPSession("10.0.0.1", "Down", 0) >> }

AlertInterfaceSnapshots ==
    { << Interface("GE0/0/1", "up", 60, 50) >>,
      << Interface("GE0/0/1", "up", 60, 40) >>,
      << Interface("GE0/0/1", "down", 0, 0) >>,
      << Interface("GE0/0/10", "up", 60, 50) >>,
      << Interface("GE0/0/10", "up", 60, 50),
         Interface("GE0/0/1", "up", 60, 50) >> }

\* The host runs in some time zone.
InitAlerts ==
    /\ InitGateway
    /\ InitScheduler
    /\ InitServices
    /\ db = EmptyDB
    /\ now = 0
    /\ tz \in HostOffsets
    /\ runs = 0
    /\ run = NoRun
    /\ before = EmptyDB

\* Collection cycles and runs of the alert evaluator 1 or 9 minutes apart.
NextAlerts ==
    \/ \E sessions \in AlertBgpSnapshots :
          JobCollectBgp(sessions, 0, "none", 0)
    \/ \E interfaces \in AlertInterfaceSnapshots :
          JobCollectInterfaces(interfaces, 0, "none", 0)
    \/ \E dt \in {1, 9} : JobCheckAlerts(dt)

SpecAlerts == InitAlerts /\ [][NextAlerts]_vars

RuleInterfaceSnapshots ==
    { << Interface("GE0/0/1", "up", 60, 50) >>,
      << Interface("GE0/0/1", "up", 60, 40) >>,
      << Interface("GE0/0/1", "down", 60, 50) >>,
      << Interface("GE0/0/10", "up", 60, 50) >>,
      << Interface("GE0/0/10", "admin_down", 70, 70) >> }

\* Interface collection cycles and runs of the alert evaluator 5 minutes
\* apart.
NextAlertRules ==
    \/ \E interfaces \in RuleInterfaceSnapshots :
          JobCollectInterfaces(interfaces, 0, "none", 0)
    \/ JobCheckAlerts(5)

SpecAlertRules == InitAlerts /\ [][NextAlertRules]_vars

\* job_check_alerts on a host with the given settings while the database
\* fails the statements of some rule functions.
JobCheckAlertsUnder(settings, faults) ==
    /\ LET result == CheckAllAlertsUnder(db, settings, faults)
       IN  /\ db' = result.db
           /\ returned' = [ fn |-> "check_all_alerts",
                            raised |-> result.raised ]
    /\ given' = [ fn |-> "check_all_alerts", settings |-> settings,
                  faults |-> faults ]
    /\ before' = db
    /\ run' = [ kind |-> "alerts", outcome |-> "committed",
                snapshot |-> <<>>, at |-> LocalNow, processed |-> 0,
                repeat |-> FALSE ]
    /\ UNCHANGED << now, tz, runs, txn, seen, gwVars, schedVars >>

EvaluatorSettings ==
    [ ALERT_BGP_DOWN_ENABLED : BOOLEAN,
      ALERT_INTERFACE_DOWN_ENABLED : BOOLEAN ]

\* No statement fails, or the statements of one rule function do.
EvaluatorFaults ==
    { faults \in [RuleClasses -> RuleFaults] :
         \A c, e \in RuleClasses :
            (faults[c] # "none" /\ faults[e] # "none") => c = e }

EvaluatorInterfaceSnapshots ==
    { << Interface("GE0/0/1", "down", 0, 0),
         Interface("GE0/0/2", "up", 60, 50) >>,
      << Interface("GE0/0/1", "up", 0, 0) >> }

\* Collection cycles and runs of the alert evaluator under every setting
\* of the enable flags and every fault of the rule functions.
NextEvaluator ==
    \/ \E sessions \in AlertBgpSnapshots :
          JobCollectBgp(sessions, 0, "none", 0)
    \/ \E interfaces \in EvaluatorInterfaceSnapshots :
          JobCollectInterfaces(interfaces, 0, "none", 0)
    \/ \E settings \in EvaluatorSettings :
          \E faults \in EvaluatorFaults :
             JobCheckAlertsUnder(settings, faults)

SpecEvaluator == Init /\ [][NextEvaluator]_vars

SchedulerInterfaceSnapshots ==
    { << Interface("GE0/0/1", "up", 60, 50) >>,
      << Interface("GE0/0/1", "down", 0, 0) >> }

\* The scheduler with its four jobs: triggers fire at any time, bodies
\* complete or fail.
NextScheduler ==
    \/ StartScheduler
    \/ \E j \in JobIds : TriggerJob(j)
    \/ \E j \in JobIds : JobFails(j)
    \/ \E sessions \in AlertBgpSnapshots, failAt \in {0, 1} :
          RunCollectBgp(sessions, failAt, "history")
    \/ \E interfaces \in SchedulerInterfaceSnapshots, failAt \in {0, 1} :
          RunCollectInterfaces(interfaces, failAt, "history")
    \/ RunCheckAlerts
    \/ \E fails \in BOOLEAN : RunCleanup(fails)

SpecScheduler == Init /\ [][NextScheduler]_vars

\* The cycles whose rows the sweep meets.
RetentionBgpSnapshots ==
    { << BGPSession("10.0.0.1", "Established", 120) >>,
      << BGPSession("10.0.0.1", "Down", 0) >> }

RetentionInterfaceSnapshots ==
    { << Interface("GE0/0/1", "up", 0, 0) >> }

\* The waits between jobs: 20 days, and two hours less than 30 days.
RetentionWaits == {20 * 1440, 30 * 1440 - 120}

\* Collection cycles and sweeps on a host of any offset, days apart.
NextRetention ==
    \/ \E sessions \in RetentionBgpSnapshots :
          JobCollectBgp(sessions, 0, "none", 0)
    \/ \E interfaces \in RetentionInterfaceSnapshots :
          JobCollectInterfaces(interfaces, 0, "none", 0)
    \/ \E fails \in BOOLEAN : JobCleanupOldData(fails)
    \/ \E d \in RetentionWaits : Elapse(d)

SpecRetention == InitAlerts /\ [][NextRetention]_vars

\* The first command of each collection job: collect_bgp_sessions and
\* collect_interfaces.
JobCommand ==
    [ collect_bgp |-> "display bgp peer",
      collect_interfaces |-> "display interface" ]

\* The steps of a call that its thread takes without waiting for another
\* thread: each branch of the code is one of them.
ThreadStep(t) ==
    \/ CheckConnected(t)
    \/ ConnectBegin(t)
    \/ ConnectOk(t)
    \/ ConnectFail(t)
    \/ SendCommand(t)
    \/ SendError(t)
    \/ ReceiveOutput(t)
    \/ ReceiveNothing(t)
    \/ LogAndRelease(t, TRUE)
    \/ LogAndRelease(t, FALSE)

\* The two collection jobs run in the executor's threads and call the
\* gateway at the same time; the audit write can fail.
NextJobs ==
    \/ \E t \in Threads : ExecuteCommand(t, JobCommand[t])
    \/ \E t \in Threads : ThreadStep(t)
    \/ \E t \in Threads : AcquireLock(t)
    \/ \E s \in Sessions : DeviceRespond(s)
    \/ \E s \in Sessions : SessionDrop(s)

\* A thread of the pool that can take a step takes it: connect has a
\* timeout, the wait loop ends after max_wait, the finally block runs.  A
\* thread blocked on the lock gets it after finitely many releases.
FairJobs ==
    \A t \in Threads : WF_vars(ThreadStep(t)) /\ SF_vars(AcquireLock(t))

SpecJobs == Init /\ [][NextJobs]_vars /\ FairJobs

\* _log_command_execution as the gateway calls it at the end of a command.
LogCommandExecution(command, ok, written) ==
    /\ Len(audit) < MaxCalls
    /\ audit' = AuditAfter(audit, command, ok, written)
    /\ UNCHANGED << connected, client, shell, lock, pc, cmd, success, output,
                    io, calls, nextId, alive, owed, rx, connects, sent, last,
                    done, detected >>
    /\ UNCHANGED << dbVars, schedVars, svcVars >>

TableBgpSnapshots ==
    { << BGPSession("10.0.0.1", "Established", 120) >>,
      << BGPSession("10.0.0.1", "Down", 0),
         BGPSession("10.0.0.2", "Established", 120) >> }

TableInterfaceSnapshots ==
    { << Interface("GE0/0/1", "up", 60, 50) >> }

\* The wait between jobs: 35 days.
TableWaits == {35 * 1440}

\* Every operation that writes to the tables: the reconcilers (a batch may
\* fail), the alert evaluator, the sweep and the audit write.
NextTables ==
    \/ \E sessions \in TableBgpSnapshots, failAt \in {0, 1} :
          JobCollectBgp(sessions, failAt, "history", 0)
    \/ \E interfaces \in TableInterfaceSnapshots, failAt \in {0, 1} :
          JobCollectInterfaces(interfaces, failAt, "history", 0)
    \/ JobCheckAlerts(0)
    \/ \E fails \in BOOLEAN : JobCleanupOldData(fails)
    \/ \E d \in TableWaits : Elapse(d)
    \/ \E ok \in BOOLEAN, written \in BOOLEAN :
          LogCommandExecution(JobCommand["collect_bgp"], ok, written)

SpecTables == Init /\ [][NextTables]_vars

(***************************************************************************)
(* The collectors: collect_bgp_sessions and collect_interfaces.  The       *)
(* device's answer to a supplementary command is a reply: "ok" with the    *)
(* counters the parser finds in it, "unparsed" when the parser finds none  *)
(* (its defaults are returned), "error" when execute_command raises.       *)
(***************************************************************************)
\* A record as parse_bgp_peer builds it: the prefix counters are zero.
ParsedSession(peer_ip, status, uptime_seconds) ==
    [ peer_ip |-> peer_ip, peer_asn |-> "65001", status |-> status,
      uptime_seconds |-> uptime_seconds,
      prefixes_received |-> 0, prefixes_sent |-> 0 ]

\* A record as parse_interface builds it: every counter has its default.
ParsedInterface(name, status) ==
    [ name |-> name, description |-> "uplink", status |-> status,
      bandwidth_capacity |-> 0,
      bandwidth_in_bps |-> 0, bandwidth_out_bps |-> 0,
      packets_in_pps |-> 0, packets_out_pps |-> 0,
      errors_in |-> 0, errors_out |-> 0,
      discards_in |-> 0, discards_out |-> 0,
      utilization_in_percent |-> 0, utilization_out_percent |-> 0 ]

\* collect_bgp_prefixes: the parsed counters, or zeros from the except
\* branch and from the parser's defaults.
CollectBgpPrefixes(reply) ==
    IF reply.kind = "ok"
    THEN [ prefixes_received |-> reply.prefixes_received,
           prefixes_sent |-> reply.prefixes_sent ]
    ELSE [ prefixes_received |-> 0, prefixes_sent |-> 0 ]

\* The loop ends at the first record whose supplementary command fails.
EnrichSessionsUntilFailure(sessions, replies, i) ==
    [ k \in DOMAIN sessions |->
        IF \A m \in 1..k : replies[m].kind = "ok"
        THEN [sessions[k] EXCEPT
                !.prefixes_received = replies[k].prefixes_received,
                !.prefixes_sent = replies[k].prefixes_sent]
        ELSE sessions[k] ]

\* `for session in sessions:` from index i on; each record is updated in
\* place with what collect_bgp_prefixes returned for it.
RECURSIVE EnrichSessionsFrom(_, _, _)
EnrichSessionsFrom(sessions, replies, i) ==
    IF i > Len(sessions) THEN sessions
    ELSE LET prefixes == CollectBgpPrefixes(replies[i])
         IN  EnrichSessionsFrom(
                 [sessions EXCEPT
                    ![i].prefixes_received = prefixes.prefixes_received,
                    ![i].prefixes_sent = prefixes.prefixes_sent],
                 replies, i + 1)

\* collect_bgp_sessions: `primary` is FALSE when "display bgp peer" fails,
\* and the exception is logged and raised again.
CollectBgpSessions(primary, base, replies) ==
    /\ Len(replies) = Len(base)
    /\ given' = [ fn |-> "collect_bgp_sessions", primary |-> primary,
                  base |-> base, replies |-> replies ]
    /\ returned' = IF primary
                   THEN [ raised |-> FALSE,
                          value |-> EnrichSessionsFrom(base, replies, 1) ]
                   ELSE [ raised |-> TRUE, value |-> <<>> ]
    /\ UNCHANGED << txn, seen, gwVars, dbVars, schedVars >>

\* collect_interface_statistics: the parsed statistics, or the zeros of
\* the except branch and of the parser's defaults.
CollectInterfaceStatistics(reply) ==
    IF reply.kind = "ok"
    THEN [ bandwidth_in_bps |-> reply.bandwidth_in_bps,
           bandwidth_out_bps |-> reply.bandwidth_out_bps,
           packets_in_pps |-> reply.packets_in_pps,
           packets_out_pps |-> reply.packets_out_pps,
           errors_in |-> reply.errors_in,
           errors_out |-> reply.errors_out,
           discards_in |-> reply.discards_in,
           discards_out |-> reply.discards_out,
           bandwidth_capacity |-> reply.bandwidth_capacity ]
    ELSE [ bandwidth_in_bps |-> 0, bandwidth_out_bps |-> 0,
           packets_in_pps |-> 0, packets_out_pps |-> 0,
           errors_in |-> 0, errors_out |-> 0,
           discards_in |-> 0, discards_out |-> 0,
           bandwidth_capacity |-> 0 ]

\* The body of the loop of collect_interfaces for one record; the
\* utilization is computed when the capacity is known (whole percents).
EnrichInterface(interface, reply) ==
    LET stats == CollectInterfaceStatistics(reply)
        known == stats.bandwidth_capacity > 0
    IN  [interface EXCEPT
           !.bandwidth_capacity = stats.bandwidth_capacity,
           !.bandwidth_in_bps = stats.bandwidth_in_bps,
           !.bandwidth_out_bps = stats.bandwidth_out_bps,
           !.packets_in_pps = stats.packets_in_pps,
           !.packets_out_pps = stats.packets_out_pps,
           !.errors_in = stats.errors_in,
           !.errors_out = stats.errors_out,
           !.discards_in = stats.discards_in,
           !.discards_out = stats.discards_out,
           !.utilization_in_percent =
               IF known
               THEN (stats.bandwidth_in_bps * 100) \div stats.bandwidth_capacity
               ELSE @,
           !.utilization_out_percent =
               IF known
               THEN (stats.bandwidth_out_bps * 100) \div stats.bandwidth_capacity
               ELSE @]

\* `for interface in interfaces:`
EnrichInterfaces(interfaces, replies) ==
    [ k \in DOMAIN interfaces |-> EnrichInterface(interfaces[k], replies[k]) ]

\* collect_interfaces: `primary` is FALSE when "display interface" fails.
CollectInterfaces(primary, base, replies) ==
    /\ Len(replies) = Len(base)
    /\ given' = [ fn |-> "collect_interfaces", primary |-> primary,
                  base |-> base, replies |-> replies ]
    /\ returned' = IF primary
                   THEN [ raised |-> FALSE,
                          value |-> EnrichInterfaces(base, replies) ]
                   ELSE [ raised |-> TRUE, value |-> <<>> ]
    /\ UNCHANGED << txn, seen, gwVars, dbVars, schedVars >>

\* What "display bgp peer" lists, parsed.
ListedSessions ==
    { <<>>,
      << ParsedSession("10.0.0.1", "Established", 323) >>,
      << ParsedSession("10.0.0.1", "Established", 323),
         ParsedSession("10.0.0.2", "Idle", 0) >>,
      << ParsedSession("10.0.0.1", "Established", 323),
         ParsedSession("10.0.0.2", "Established", 86700),
         ParsedSession("10.0.0.3", "Active", 0) >> }

\* What the interface listing gives, parsed: parse_interface reads the
\* first block of the text and returns no more than one record.
ListedInterfaces ==
    { <<>>,
      << ParsedInterface("GE0/0/1", "up") >>,
      << ParsedInterface("GE0/0/1", "down") >>,
      << ParsedInterface("GE0/0/10", "administratively") >> }

PrefixReplies ==
    { [kind |-> "ok", prefixes_received |-> 150, prefixes_sent |-> 100],
      [kind |-> "ok", prefixes_received |-> 7, prefixes_sent |-> 0],
      [kind |-> "unparsed"],
      [kind |-> "error"] }

StatisticsReplies ==
    { [ kind |-> "ok", bandwidth_in_bps |-> 500, bandwidth_out_bps |-> 250,
        packets_in_pps |-> 40, packets_out_pps |-> 20,
        errors_in |-> 60, errors_out |-> 50,
        discards_in |-> 3, discards_out |-> 1,
        bandwidth_capacity |-> 1000 ],
      [ kind |-> "ok", bandwidth_in_bps |-> 500, bandwidth_out_bps |-> 250,
        packets_in_pps |-> 40, packets_out_pps |-> 20,
        errors_in |-> 0, errors_out |-> 0,
        discards_in |-> 0, discards_out |-> 0,
        bandwidth_capacity |-> 0 ],
      [kind |-> "unparsed"],
      [kind |-> "error"] }

\* The sequences over R of length n.
SeqsOfLen(R, n) == [1..n -> R]

\* The collectors are called with any listing and any replies.
NextCollect ==
    \/ \E primary \in BOOLEAN, base \in ListedSessions :
          \E replies \in SeqsOfLen(PrefixReplies, Len(base)) :
             CollectBgpSessions(primary, base, replies)
    \/ \E primary \in BOOLEAN, base \in ListedInterfaces :
          \E replies \in SeqsOfLen(StatisticsReplies, Len(base)) :
             CollectInterfaces(primary, base, replies)

SpecCollect == Init /\ [][NextCollect]_vars

(***************************************************************************)
(* A reconcile batch statement by statement, with readers.  The batch      *)
(* works on its own connection; `db` is the committed content, which is    *)
(* what any other connection reads.                                        *)
(***************************************************************************)
\* `with db.get_connection() as conn:` of a reconciler with a snapshot
\* that is not empty.
BeginBatch(kind, snapshot) ==
    /\ ~txn.open
    /\ runs < MaxRuns
    /\ snapshot # <<>>
    /\ runs' = runs + 1
    /\ txn' = [ open |-> TRUE, kind |-> kind, snapshot |-> snapshot,
                i |-> 1, start |-> db, work |-> db ]
    /\ UNCHANGED << db, now, tz, run, before, given, returned, seen,
                    gwVars, schedVars >>

\* One pass of the reconciler's loop: the select, the event if the status
\* changed, the upsert and the history row, all uncommitted.
BatchStep ==
    /\ txn.open
    /\ txn.i <= Len(txn.snapshot)
    /\ txn' = [txn EXCEPT
                 !.work = IF txn.kind = "bgp"
                          THEN BgpSessionWork(@, txn.snapshot[txn.i],
                                              LocalNow, "none")
                          ELSE InterfaceWork(@, txn.snapshot[txn.i],
                                             LocalNow, "none"),
                 !.i = @ + 1]
    /\ UNCHANGED << dbVars, given, returned, seen, gwVars, schedVars >>

\* A statement of the batch raises: get_connection rolls back.
BatchRaises ==
    /\ txn.open
    /\ txn.i <= Len(txn.snapshot)
    /\ db' = Rollback(db, txn.work)
    /\ before' = txn.start
    /\ run' = RunRecord(txn.kind, txn.snapshot, txn.i)
    /\ txn' = NoTxn
    /\ UNCHANGED << now, tz, runs, given, returned, seen, gwVars, schedVars >>

\* conn.commit() after the loop.
BatchCommit ==
    /\ txn.open
    /\ txn.i > Len(txn.snapshot)
    /\ db' = Commit(db, txn.work)
    /\ before' = txn.start
    /\ run' = RunRecord(txn.kind, txn.snapshot, 0)
    /\ txn' = NoTxn
    /\ UNCHANGED << now, tz, runs, given, returned, seen, gwVars, schedVars >>

\* The reader sees the writes the open transaction has made so far.
ReadUncommitted == IF txn.open THEN txn.work ELSE db

\* What a SELECT on a connection of its own returns: committed content.
ReadCommitted == db

\* execute_query: a read transaction on a new connection.  With the
\* tables read, `seen` keeps where the reconciler's batch was.
ExecuteQuery ==
    /\ seen' = [ read |-> TRUE, tables |-> ReadCommitted,
                 during |-> txn.open,
                 start |-> IF txn.open THEN txn.start ELSE db,
                 work |-> IF txn.open THEN txn.work ELSE db,
                 passes |-> IF txn.open THEN txn.i - 1 ELSE 0,
                 records |-> IF txn.open THEN Len(txn.snapshot) ELSE 0,
                 batch |-> runs ]
    /\ UNCHANGED << dbVars, given, returned, txn, gwVars, schedVars >>

ReaderBgpSnapshots ==
    { << BGPSession("10.0.0.1", "Established", 120),
         BGPSession("10.0.0.2", "Established", 120) >>,
      << BGPSession("10.0.0.1", "Down", 0),
         BGPSession("10.0.0.2", "Established", 120) >> }

ReaderInterfaceSnapshots ==
    { << Interface("GE0/0/1", "up", 0, 0),
         Interface("GE0/0/10", "up", 0, 0) >>,
      << Interface("GE0/0/1", "down", 0, 0),
         Interface("GE0/0/10", "up", 0, 0) >> }

\* Reconcile batches statement by statement while readers query.
NextReaders ==
    \/ \E sessions \in ReaderBgpSnapshots : BeginBatch("bgp", sessions)
    \/ \E interfaces \in ReaderInterfaceSnapshots :
          BeginBatch("interface", interfaces)
    \/ BatchStep
    \/ BatchRaises
    \/ BatchCommit
    \/ ExecuteQuery

SpecReaders == Init /\ [][NextReaders]_vars

(***************************************************************************)
(* The parsers.  Texts are strings; the parsers read them character by     *)
(* character as the regular expressions and str methods of the code do.    *)
(***************************************************************************)
Digits == << "0", "1", "2", "3", "4", "5", "6", "7", "8", "9" >>

IsDigit(ch) == \E d \in DOMAIN Digits : Digits[d] = ch

DigitValue(ch) == (CHOOSE d \in DOMAIN Digits : Digits[d] = ch) - 1

\* The strings of ASCII digits: \d+
IsInt(s) == Len(s) > 0 /\ \A i \in 1..Len(s) : IsDigit(SubSeq(s, i, i))

\* int(s) for a string of digits
RECURSIVE IntOf(_)
IntOf(s) ==
    IF Len(s) = 0 THEN 0
    ELSE IntOf(SubSeq(s, 1, Len(s) - 1)) * 10
            + DigitValue(SubSeq(s, Len(s), Len(s)))

\* s.split(sep) for a separator of one character
RECURSIVE SplitOn(_, _, _)
SplitOn(s, sep, acc) ==
    IF Len(s) = 0 THEN <<acc>>
    ELSE IF SubSeq(s, 1, 1) = sep
         THEN <<acc>> \o SplitOn(SubSeq(s, 2, Len(s)), sep, "")
         ELSE SplitOn(SubSeq(s, 2, Len(s)), sep, acc \o SubSeq(s, 1, 1))

\* The length of the longest prefix of s whose characters are in chars.
PrefixLen(s, chars) ==
    CHOOSE n \in 0..Len(s) :
        /\ \A i \in 1..n : SubSeq(s, i, i) \in chars
        /\ n = Len(s) \/ SubSeq(s, n + 1, n + 1) \notin chars

\* The length of the first run of characters that are not white space.
TokenLen(s) ==
    CHOOSE n \in 0..Len(s) :
        /\ \A i \in 1..n : ~IsSpace(SubSeq(s, i, i))
        /\ n = Len(s) \/ IsSpace(SubSeq(s, n + 1, n + 1))

\* s.split(): the runs of characters that are not white space, one step
\* for each run
RECURSIVE Tokens(_)
Tokens(s) ==
    LET body == LStrip(s)
        n == TokenLen(body)
    IN  IF body = "" THEN <<>>
        ELSE << SubSeq(body, 1, n) >> \o Tokens(SubSeq(body, n + 1, Len(body)))

\* The end of the run of digits of s that begins at i.
RECURSIVE DigitRunEnd(_, _)
DigitRunEnd(s, i) ==
    IF i < Len(s) /\ IsDigit(SubSeq(s, i + 1, i + 1))
    THEN DigitRunEnd(s, i + 1)
    ELSE i

\* re.search(r"(\d+)<unit>", s) from index i on: the number of the
\* leftmost run of digits that the unit letter follows, or -1 for no match.
RECURSIVE SearchUnit(_, _, _)
SearchUnit(s, unit, i) ==
    IF i > Len(s) THEN -1
    ELSE IF ~IsDigit(SubSeq(s, i, i)) THEN SearchUnit(s, unit, i + 1)
    ELSE LET e == DigitRunEnd(s, i)
         IN  IF e < Len(s) /\ SubSeq(s, e + 1, e + 1) = unit
             THEN IntOf(SubSeq(s, i, e))
             ELSE SearchUnit(s, unit, e + 1)

\* The days, hours and minutes found are added up; a unit that is not
\* found adds nothing.
CompoundUptime(uptime_str) ==
    LET days == SearchUnit(uptime_str, "d", 1)
        hours == SearchUnit(uptime_str, "h", 1)
        minutes == SearchUnit(uptime_str, "m", 1)
    IN  (IF days >= 0 THEN days * 86400 ELSE 0)
          + (IF hours >= 0 THEN hours * 3600 ELSE 0)
          + (IF minutes >= 0 THEN minutes * 60 ELSE 0)

\* What int() accepts of ASCII text: digits, after an optional sign, with
\* white space around them.
Unsigned(s) ==
    LET body == Strip(s)
    IN  IF StartsWith(body, "+") \/ StartsWith(body, "-")
        THEN SubSeq(body, 2, Len(body))
        ELSE body

AcceptedByInt(s) == IsInt(Unsigned(s))

\* int(s)
IntValue(s) ==
    IF StartsWith(Strip(s), "-") THEN 0 - IntOf(Unsigned(s))
    ELSE IntOf(Unsigned(s))

\* The hours are left out of the sum.
ClockUptimeNoHours(parts) ==
    IF \E i \in DOMAIN parts : ~AcceptedByInt(parts[i]) THEN 0
    ELSE IF Len(parts) = 3
    THEN IntValue(parts[2]) * 60 + IntValue(parts[3])
    ELSE IntValue(parts[1]) * 60 + IntValue(parts[2])

\* `hours, minutes, seconds = map(int, parts)` (or minutes, seconds); a
\* part int() does not accept raises, and the except branch returns 0.
ClockUptime(parts) ==
    IF \E i \in DOMAIN parts : ~AcceptedByInt(parts[i]) THEN 0
    ELSE IF Len(parts) = 3
    THEN IntValue(parts[1]) * 3600 + IntValue(parts[2]) * 60
            + IntValue(parts[3])
    ELSE IntValue(parts[1]) * 60 + IntValue(parts[2])

\* The try block of _parse_uptime raises ValueError when int() is given a
\* part it does not accept.
UptimeBodyRaises(uptime_str) ==
    /\ uptime_str # "" /\ Lower(uptime_str) # "never"
    /\ Contains(uptime_str, ":")
    /\ LET parts == SplitOn(uptime_str, ":", "")
       IN  Len(parts) \in {2, 3}
              /\ \E i \in DOMAIN parts : ~AcceptedByInt(parts[i])

\* Without the except clause what the body raises leaves the parser.
RaisesNoExcept(bodyRaises) == bodyRaises

\* Whether a parser raises, given that its try block does: every parser
\* ends with `except Exception as e:`, which logs and falls through to the
\* return.
Raises(bodyRaises) == FALSE

\* _parse_uptime
ParseUptime(uptime_str) ==
    IF uptime_str = "" \/ Lower(uptime_str) = "never" THEN 0
    ELSE IF Contains(uptime_str, ":")
              /\ Len(SplitOn(uptime_str, ":", "")) \in {2, 3}
         THEN ClockUptime(SplitOn(uptime_str, ":", ""))
         ELSE CompoundUptime(uptime_str)

\* The character classes of the regular expressions, for ASCII text: \d,
\* \w, [\d\.], [\d:] and [A-Za-z0-9\-/\.]
DigitChars == { Digits[d] : d \in DOMAIN Digits }

Letters == DOMAIN UpperToLower \cup { UpperToLower[u] : u \in DOMAIN UpperToLower }

WordChars == DigitChars \cup Letters \cup {"_"}

AddressChars == DigitChars \cup {"."}

ClockChars == DigitChars \cup {":"}

NameChars == DigitChars \cup Letters \cup {"-", "/", "."}

AllOf(s, chars) == Len(s) > 0 /\ PrefixLen(s, chars) = Len(s)

\* The uptime column of the row pattern: ([\d:]+|Never)
UptimeToken(token) == AllOf(token, ClockChars) \/ token = "Never"

\* re.match of the peer row pattern on a stripped line: the first seven
\* columns are whole tokens of their classes, the eighth begins with a
\* word.
PeerRowMatches(line) ==
    LET t == Tokens(line)
    IN  /\ Len(t) >= 8
        /\ AllOf(t[1], AddressChars)
        /\ \A k \in 2..6 : IsInt(t[k])
        /\ UptimeToken(t[7])
        /\ PrefixLen(t[8], WordChars) > 0

\* The BGPSession built from a row that matches.
PeerOfRow(line) ==
    LET t == Tokens(line)
    IN  [ peer_ip |-> t[1], peer_asn |-> t[3],
          status |-> SubSeq(t[8], 1, PrefixLen(t[8], WordChars)),
          uptime_seconds |-> ParseUptime(t[7]),
          prefixes_received |-> 0, prefixes_sent |-> 0 ]

\* `if not line or "Peer" in line or "BGP" in line or "---" in line` and
\* the prompt lines
PeerLineSkipped(line) ==
    \/ line = ""
    \/ Contains(line, "Peer") \/ Contains(line, "BGP") \/ Contains(line, "---")
    \/ StartsWith(line, "<") \/ StartsWith(line, ">")

\* The loop of parse_bgp_peer over the lines from index i on.
RECURSIVE PeersFrom(_, _)
PeersFrom(lines, i) ==
    IF i > Len(lines) THEN <<>>
    ELSE LET line == Strip(lines[i])
         IN  IF ~PeerLineSkipped(line) /\ PeerRowMatches(line)
             THEN << PeerOfRow(line) >> \o PeersFrom(lines, i + 1)
             ELSE PeersFrom(lines, i + 1)

\* The try block of parse_bgp_peer raises if _parse_uptime does, on the
\* uptime column of a row that matches.
PeerBodyRaises(reply) ==
    LET lines == SplitLines(Strip(reply), "")
    IN  \E i \in DOMAIN lines :
           LET line == Strip(lines[i])
           IN  /\ ~PeerLineSkipped(line)
               /\ PeerRowMatches(line)
               /\ Raises(UptimeBodyRaises(Tokens(line)[7]))

\* parse_bgp_peer
ParseBgpPeer(reply) ==
    LET lines == SplitLines(Strip(reply), "")
        has_bgp_data ==
            \E i \in DOMAIN lines :
               \/ Contains(lines[i], "BGP")
               \/ Contains(lines[i], "Peer")
               \/ \E k \in 1..Len(lines[i]) : IsDigit(SubSeq(lines[i], k, k))
    IN  IF has_bgp_data THEN PeersFrom(lines, 1) ELSE <<>>

\* re.sub(r"\(\d+<units>\)", "", name): the capacity suffixes are removed.
RECURSIVE RemoveCapacity(_, _)
RemoveCapacity(name, units) ==
    IF Len(name) = 0 THEN ""
    ELSE IF SubSeq(name, 1, 1) = "(" /\ Len(name) >= 4
              /\ IsDigit(SubSeq(name, 2, 2))
              /\ LET e == DigitRunEnd(name, 2)
                 IN  /\ e + 2 <= Len(name)
                     /\ SubSeq(name, e + 1, e + 1) \in units
                     /\ SubSeq(name, e + 2, e + 2) = ")"
         THEN RemoveCapacity(SubSeq(name, DigitRunEnd(name, 2) + 3, Len(name)),
                             units)
         ELSE SubSeq(name, 1, 1) \o RemoveCapacity(SubSeq(name, 2, Len(name)),
                                                   units)

\* `if phy_status == "up" and protocol_status == "up"` of the two table
\* parsers
OverallStatus(phy_status, protocol_status) ==
    IF phy_status = "up" /\ protocol_status = "up" THEN "up" ELSE "down"

\* The Interface a parser builds: the counters have their defaults.
InterfaceOf(name, status, description) ==
    [ParsedInterface(name, status) EXCEPT !.description = description]

BriefLineSkipped(line) ==
    \/ line = ""
    \/ Contains(line, "Interface") \/ Contains(line, "PHY")
    \/ StartsWith(line, "*down") \/ StartsWith(line, "^down")
    \/ StartsWith(line, "(") \/ StartsWith(line, "InUti")

\* The loop of parse_interface_brief over the lines from index i on.
RECURSIVE BriefFrom(_, _)
BriefFrom(lines, i) ==
    IF i > Len(lines) THEN <<>>
    ELSE LET line == Strip(lines[i])
             parts == Tokens(line)
         IN  IF BriefLineSkipped(line) \/ Len(parts) < 3
             THEN BriefFrom(lines, i + 1)
             ELSE << InterfaceOf(RemoveCapacity(parts[1], {"G"}),
                                 OverallStatus(Lower(parts[2]), Lower(parts[3])),
                                 "None") >>
                    \o BriefFrom(lines, i + 1)

\* parse_interface_brief
ParseInterfaceBrief(reply) == BriefFrom(SplitLines(Strip(reply), ""), 1)

DescriptionLineSkipped(line) ==
    \/ line = ""
    \/ Contains(line, "Interface") /\ Contains(line, "PHY")
    \/ StartsWith(line, "---") \/ StartsWith(line, "===")
    \/ StartsWith(line, "(") \/ StartsWith(line, "*down")
    \/ Contains(Lower(line), "current state")

\* line.split(None, 3)[3]: what follows the third token, or "None"
RECURSIVE RestAfter(_, _)
RestAfter(line, n) ==
    LET body == LStrip(line)
    IN  IF n = 0 THEN (IF Strip(body) = "" THEN "None" ELSE Strip(body))
        ELSE RestAfter(SubSeq(body, TokenLen(body) + 1,
                              Len(body)), n - 1)

\* The loop of parse_interface_description over the lines from index i on.
RECURSIVE DescriptionFrom(_, _)
DescriptionFrom(lines, i) ==
    IF i > Len(lines) THEN <<>>
    ELSE LET line == Strip(lines[i])
             parts == Tokens(line)
         IN  IF DescriptionLineSkipped(line) \/ Len(parts) < 3
             THEN DescriptionFrom(lines, i + 1)
             ELSE << InterfaceOf(RemoveCapacity(parts[1], {"G", "M"}),
                                 OverallStatus(Lower(parts[2]), Lower(parts[3])),
                                 RestAfter(line, 3)) >>
                    \o DescriptionFrom(lines, i + 1)

\* parse_interface_description
ParseInterfaceDescription(reply) ==
    DescriptionFrom(SplitLines(Strip(reply), ""), 1)

\* re.match(r"^([A-Za-z0-9\-/\.]+)\s+current state\s*:\s*(\w+)", line):
\* whether it matches, the name and the word after the colon.
MatchCurrentState(line) ==
    LET n == PrefixLen(line, NameChars)
        rest1 == SubSeq(line, n + 1, Len(line))
        rest2 == LStrip(rest1)
        rest3 == LStrip(SubSeq(rest2, Len("current state") + 1, Len(rest2)))
        rest4 == LStrip(SubSeq(rest3, 2, Len(rest3)))
        ok == /\ n > 0
              /\ Len(rest2) < Len(rest1)
              /\ StartsWith(rest2, "current state")
              /\ StartsWith(rest3, ":")
              /\ PrefixLen(rest4, WordChars) > 0
    IN  [ ok |-> ok,
          name |-> SubSeq(line, 1, n),
          word |-> IF ok THEN SubSeq(rest4, 1, PrefixLen(rest4, WordChars))
                   ELSE "" ]

\* re.search(r"Description:\s*(.+)", line) and the strip of its group, or
\* "None" for no match.
RECURSIVE SearchDescription(_)
SearchDescription(line) ==
    IF Len(line) <= Len("Description:") THEN "None"
    ELSE IF StartsWith(line, "Description:")
         THEN Strip(SubSeq(line, Len("Description:") + 1, Len(line)))
         ELSE SearchDescription(SubSeq(line, 2, Len(line)))

\* The first line with "Description" in it gives the description.
RECURSIVE DescriptionIn(_, _)
DescriptionIn(lines, i) ==
    IF i > Len(lines) THEN "None"
    ELSE IF Contains(lines[i], "Description")
         THEN SearchDescription(lines[i])
         ELSE DescriptionIn(lines, i + 1)

\* parse_interface: the first line gives the name and the status, the
\* word after "current state :", in lower case.
ParseInterface(reply) ==
    LET lines == SplitLines(Strip(reply), "")
        m == MatchCurrentState(lines[1])
    IN  IF ~m.ok THEN <<>>
        ELSE << InterfaceOf(m.name, Lower(m.word), DescriptionIn(lines, 1)) >>

(***************************************************************************)
(* The patterns of parse_bgp_routing_table_peer and of                     *)
(* parse_interface_statistics, all searched with re.IGNORECASE: the text   *)
(* is lowered and the pattern is a sequence of lowered literals, each      *)
(* after a gap ("none"; "line" for `.*?`, which stays on one line; "any"   *)
(* for the start of re.search), and a tail that yields the number.         *)
(***************************************************************************)
At(t, p, w) == p >= 1 /\ p + Len(w) - 1 <= Len(t) /\ SubSeq(t, p, p + Len(w) - 1) = w

\* The first position from p on that holds no white space.
SkipSpace(t, p) ==
    CHOOSE q \in p..(Len(t) + 1) :
        /\ \A i \in p..(q - 1) : IsSpace(SubSeq(t, i, i))
        /\ q = Len(t) + 1 \/ ~IsSpace(SubSeq(t, q, q))

DigitAt(t, p) == p >= 1 /\ p <= Len(t) /\ IsDigit(SubSeq(t, p, p))

\* The tails, matched at p: the number they capture, or -1.
\*   "int"       \s*(\d+)
\*   "int_bps"   \s*([\d]+)\s*(?:bps|Bps)
\*   "int_unit"  \s*(\d+)\s*([KMG]bps), the number times the unit
\*   "gap_pps"   .*?(\d+)\s*pps
Capture(t, p, tail) ==
    LET q == SkipSpace(t, p)
        e == DigitRunEnd(t, q)
        after == SkipSpace(t, e + 1)
        n == IntOf(SubSeq(t, q, e))
    IN  CASE tail = "int" -> IF DigitAt(t, q) THEN n ELSE -1
          [] tail = "int_bps" ->
                IF DigitAt(t, q) /\ At(t, after, "bps") THEN n ELSE -1
          [] tail = "int_unit" ->
                IF ~DigitAt(t, q) THEN -1
                ELSE IF At(t, after, "gbps") THEN n * 1000000000
                ELSE IF At(t, after, "mbps") THEN n * 1000000
                ELSE IF At(t, after, "kbps") THEN n * 1000
                ELSE -1
          [] OTHER ->
                LET Ok(d) == /\ DigitAt(t, d)
                             /\ \A i \in p..(d - 1) : SubSeq(t, i, i) # "\n"
                             /\ At(t, SkipSpace(t, DigitRunEnd(t, d) + 1), "pps")
                IN  IF \E d \in p..Len(t) : Ok(d)
                    THEN LET d == CHOOSE d \in p..Len(t) :
                                    Ok(d) /\ \A c \in p..(d - 1) : ~Ok(c)
                         IN  IntOf(SubSeq(t, d, DigitRunEnd(t, d)))
                    ELSE -1

\* The items from the i-th on and the tail, matched at p: the number
\* captured by the first way to match that the engine finds, or -1.  An
\* item has a set of literals, of which no two match at one position.
RECURSIVE MatchFrom(_, _, _, _, _)
MatchFrom(t, p, items, i, tail) ==
    IF i > Len(items) THEN Capture(t, p, tail)
    ELSE LET Rest(q, lit) == MatchFrom(t, q + Len(lit), items, i + 1, tail)
             Ok(q) == /\ items[i].gap = "none" => q = p
                      /\ items[i].gap = "line" =>
                            \A k \in p..(q - 1) : SubSeq(t, k, k) # "\n"
                      /\ \E lit \in items[i].lits :
                            At(t, q, lit) /\ Rest(q, lit) >= 0
         IN  IF \E q \in p..Len(t) : Ok(q)
             THEN LET q == CHOOSE q \in p..Len(t) :
                             Ok(q) /\ \A c \in p..(q - 1) : ~Ok(c)
                  IN  Rest(q, CHOOSE lit \in items[i].lits :
                                 At(t, q, lit) /\ Rest(q, lit) >= 0)
             ELSE -1

\* re.search(pattern, reply, re.IGNORECASE) and int() of its number; what
\* the dictionary holds when there is no match is 0.
Search(reply, words, tail) ==
    LET items == [ i \in DOMAIN words |->
                     [ gap |-> IF i = 1 THEN "any" ELSE "line",
                       lits |-> words[i] ] ]
        n == MatchFrom(Lower(reply), 1, items, 1, tail)
    IN  IF n >= 0 THEN n ELSE 0

\* parse_bgp_routing_table_peer
ParseBgpRoutingTablePeer(reply) ==
    [ prefixes_received |-> Search(reply, << {"received"}, {":"} >>, "int"),
      prefixes_sent |->
          Search(reply, << {"advertised", "sent"}, {":"} >>, "int") ]

\* parse_interface_statistics
ParseInterfaceStatistics(reply) ==
    [ bandwidth_in_bps |-> Search(reply, << {"input"}, {"rate"}, {":"} >>, "int_bps"),
      bandwidth_out_bps |-> Search(reply, << {"output"}, {"rate"}, {":"} >>, "int_bps"),
      packets_in_pps |-> Search(reply, << {"input"} >>, "gap_pps"),
      packets_out_pps |-> Search(reply, << {"output"} >>, "gap_pps"),
      errors_in |-> Search(reply, << {"input errors:"} >>, "int"),
      errors_out |-> Search(reply, << {"output errors:"} >>, "int"),
      discards_in |-> Search(reply, << {"input"}, {"discard"}, {":"} >>, "int"),
      discards_out |-> Search(reply, << {"output"}, {"discard"}, {":"} >>, "int"),
      bandwidth_capacity |-> Search(reply, << {"bw:"} >>, "int_unit") ]

(***************************************************************************)
(* The texts given to the parsers.  A text is written out from the numbers *)
(* and words it stands for, in the layouts the parsers' docstrings give,   *)
(* so that what a parser returns can be compared with what was written.    *)
(***************************************************************************)
\* str(n)
RECURSIVE Decimal(_)
Decimal(n) ==
    IF n < 10 THEN Digits[n + 1]
    ELSE Decimal(n \div 10) \o Digits[(n % 10) + 1]

\* "%02d" % n
TwoDigits(n) == IF n < 10 THEN "0" \o Decimal(n) ELSE Decimal(n)

\* The uptimes: HH:MM:SS, NdNNhNNm, the word for a session that never
\* came up, and the empty string.
ClockUptimes ==
    { [ form |-> "clock", a |-> h, b |-> m, c |-> sec, word |-> "" ] :
        h \in {0, 5, 23, 100}, m \in {0, 5, 59}, sec \in {0, 23, 59} }

CompoundUptimes ==
    { [ form |-> "compound", a |-> d, b |-> h, c |-> m, word |-> "" ] :
        d \in {0, 1, 12}, h \in {0, 23}, m \in {0, 5, 59} }

NeverUptimes ==
    { [ form |-> "never", a |-> 0, b |-> 0, c |-> 0, word |-> w ] :
        w \in {"Never", "never", "NEVER", ""} }

\* Texts that are none of the layouts: the device's answer to a command it
\* does not know, and noise.
MalformedTexts ==
    { "garbage", "%%%\n\n::", "1:x:3",
      "Error: Unrecognized command found at '^' position." }

\* Uptimes in none of the forms; the colons make _parse_uptime try int().
MalformedUptimes ==
    { [ form |-> "malformed", a |-> 0, b |-> 0, c |-> 0, word |-> w ] :
        w \in MalformedTexts \cup {"::", "x:1"} }

Uptimes ==
    ClockUptimes \cup CompoundUptimes \cup NeverUptimes \cup MalformedUptimes

UptimeText(u) ==
    CASE u.form = "clock" ->
            TwoDigits(u.a) \o ":" \o TwoDigits(u.b) \o ":" \o TwoDigits(u.c)
      [] u.form = "compound" ->
            Decimal(u.a) \o "d" \o TwoDigits(u.b) \o "h" \o TwoDigits(u.c) \o "m"
      [] OTHER -> u.word

UptimeInputs ==
    { [ fn |-> "_parse_uptime", uptime |-> u, uptime_str |-> UptimeText(u) ] :
        u \in Uptimes }

\* The rows of a peer table: an address, an uptime and a state.
PeerUptimes ==
    { u \in Uptimes :
        \/ u.form = "clock" /\ << u.a, u.b, u.c >> = << 0, 5, 23 >>
        \/ u.form = "compound" /\ << u.a, u.b, u.c >> = << 1, 0, 5 >>
        \/ u.form = "never" /\ u.word # ""
        \/ u.form = "malformed" /\ u.word = "::" }

PeerRows(peer_ip) ==
    { [ peer_ip |-> peer_ip, uptime |-> u, status |-> st ] :
        u \in PeerUptimes,
        st \in IF peer_ip = "10.0.0.1" THEN {"Established", "Idle"}
               ELSE {"Active"} }

PeerTables ==
    { << r >> : r \in PeerRows("10.0.0.1") }
      \cup { << r1, r2 >> : r1 \in { r \in PeerRows("10.0.0.1") :
                                        r.status = "Established" },
                            r2 \in PeerRows("10.0.0.2") }

\* A row in the layout of the docstring of parse_bgp_peer.
PeerRowText(r) ==
    " " \o r.peer_ip \o "  4 65001 12 13 0  " \o UptimeText(r.uptime)
        \o "   " \o r.status

RECURSIVE PeerRowsText(_, _)
PeerRowsText(rows, i) ==
    IF i > Len(rows) THEN ""
    ELSE "\n" \o PeerRowText(rows[i]) \o PeerRowsText(rows, i + 1)

PeerTableText(rows) ==
    " Peer V AS MsgRcvd MsgSent OutQ Up/Down State" \o PeerRowsText(rows, 1)

PeerInputs ==
    { [ fn |-> "parse_bgp_peer", rows |-> rows, text |-> PeerTableText(rows) ] :
        rows \in PeerTables }
      \cup { [ fn |-> "parse_bgp_peer", rows |-> <<>>, text |-> t ] :
               t \in MalformedTexts \cup {""} }

\* The rows of an interface listing: a name, the state of the physical
\* layer ("*down" is down by administration) and that of the line
\* protocol.
InterfaceRows(name) ==
    { [ name |-> name, phy |-> phy, protocol |-> protocol ] :
        phy \in {"up", "down", "*down"}, protocol \in {"up", "down"} }

InterfaceListings ==
    { << r >> : r \in InterfaceRows("GE0/7/0") }
      \cup { << r1, r2 >> : r1 \in { r \in InterfaceRows("GE0/7/0") :
                                        r.phy = "up" },
                            r2 \in InterfaceRows("Eth0/0/1") }

\* A row of `display interface brief`, or of `display interface
\* description` when a description follows.
InterfaceRowText(r, rest) ==
    r.name \o "(10G)  " \o r.phy \o "   " \o r.protocol \o rest

RECURSIVE InterfaceRowsText(_, _, _)
InterfaceRowsText(rows, rest, i) ==
    IF i > Len(rows) THEN ""
    ELSE "\n" \o InterfaceRowText(rows[i], rest)
             \o InterfaceRowsText(rows, rest, i + 1)

BriefText(rows) ==
    "Interface PHY Protocol InUti OutUti inErrors outErrors"
        \o InterfaceRowsText(rows, "  4.29% 43.06%  0  0", 1)

DescriptionText(rows) ==
    "Interface PHY Protocol Description"
        \o InterfaceRowsText(rows, "  P2P - CGNAT", 1)

\* The block `display interface` prints for one interface.
DetailText(r) ==
    r.name \o " current state : "
        \o (CASE r.phy = "up" -> "UP"
              [] r.phy = "down" -> "DOWN"
              [] OTHER -> "Administratively DOWN")
        \o "\nLine protocol current state : "
        \o (IF r.protocol = "up" THEN "UP" ELSE "DOWN")
        \o "\nDescription: P2P - CGNAT"

InterfaceInputs ==
    { [ fn |-> "parse_interface_brief", rows |-> rows,
        text |-> BriefText(rows) ] : rows \in InterfaceListings }
      \cup { [ fn |-> "parse_interface_description", rows |-> rows,
               text |-> DescriptionText(rows) ] : rows \in InterfaceListings }
      \cup { [ fn |-> "parse_interface", rows |-> << r >>,
               text |-> DetailText(r) ] : r \in InterfaceRows("GE0/7/0") }
      \cup { [ fn |-> fn, rows |-> <<>>, text |-> t ] :
               fn \in { "parse_interface_brief", "parse_interface_description",
                        "parse_interface" },
               t \in MalformedTexts \cup {""} }

\* What `display interface` prints: one block for each interface, with an
\* empty line between blocks.
RECURSIVE BlocksText(_, _)
BlocksText(rows, i) ==
    IF i > Len(rows) THEN ""
    ELSE DetailText(rows[i])
            \o (IF i < Len(rows) THEN "\n\n" ELSE "")
            \o BlocksText(rows, i + 1)

BlockListings ==
    LET first == { r \in InterfaceRows("GE0/7/0") : r.phy # "*down" }
        second == { r \in InterfaceRows("Eth0/0/1") : r.phy = r.protocol }
        third == { r \in InterfaceRows("GE0/7/1") : r.phy = "up" /\ r.protocol = "up" }
    IN  { << r1 >> : r1 \in first }
          \cup { << r1, r2 >> : r1 \in first, r2 \in second }
          \cup { << r1, r2, r3 >> : r1 \in first, r2 \in second, r3 \in third }

\* The listing given to collect_interfaces and the answer to each of its
\* statistics commands.
CollectorInputs ==
    { [ fn |-> "collect_interfaces", rows |-> rows,
        text |-> BlocksText(rows, 1), reply |-> reply ] :
        rows \in BlockListings,
        reply \in { r \in StatisticsReplies : r.kind \in {"ok", "error"} } }

\* The counters of one interface and of one peer, and the texts that
\* carry them.
ZeroStatistics == CollectInterfaceStatistics([kind |-> "error"])

Statistics ==
    { [ ZeroStatistics EXCEPT
          !.bandwidth_in_bps = n * 1000, !.bandwidth_out_bps = n * 500,
          !.packets_in_pps = n, !.packets_out_pps = n + 20,
          !.errors_in = e, !.errors_out = 2 * e,
          !.discards_in = e + 3, !.discards_out = 1,
          !.bandwidth_capacity = 1000000 ] :
        n \in {0, 40, 125}, e \in {0, 60} }

StatisticsText(st) ==
    "BW: 1 Mbps\nInput rate: " \o Decimal(st.bandwidth_in_bps) \o " bps, "
        \o Decimal(st.packets_in_pps) \o " pps\nOutput rate: "
        \o Decimal(st.bandwidth_out_bps) \o " bps, "
        \o Decimal(st.packets_out_pps) \o " pps\nInput errors: "
        \o Decimal(st.errors_in) \o "\nOutput errors: "
        \o Decimal(st.errors_out) \o "\nInput discard: "
        \o Decimal(st.discards_in) \o "\nOutput discard: "
        \o Decimal(st.discards_out)

ZeroPrefixes == CollectBgpPrefixes([kind |-> "error"])

Prefixes ==
    { [ prefixes_received |-> r, prefixes_sent |-> a ] :
        r \in {0, 7, 150}, a \in {0, 100} }

PrefixesText(pf) ==
    "Number of routes received: " \o Decimal(pf.prefixes_received)
        \o "\nNumber of routes advertised: " \o Decimal(pf.prefixes_sent)

CounterInputs ==
    { [ fn |-> "parse_interface_statistics", counters |-> st,
        text |-> StatisticsText(st) ] : st \in Statistics }
      \cup { [ fn |-> "parse_interface_statistics",
               counters |-> ZeroStatistics, text |-> t ] :
               t \in MalformedTexts \cup {""} }
      \cup { [ fn |-> "parse_bgp_routing_table_peer", counters |-> pf,
               text |-> PrefixesText(pf) ] : pf \in Prefixes }
      \cup { [ fn |-> "parse_bgp_routing_table_peer",
               counters |-> ZeroPrefixes, text |-> t ] :
               t \in MalformedTexts \cup {""} }

ParserInputs ==
    UptimeInputs \cup PeerInputs \cup InterfaceInputs \cup CollectorInputs
        \cup CounterInputs

\* One parser is applied to one text.
InitParsers ==
    /\ InitGateway
    /\ InitStore
    /\ InitScheduler
    /\ given \in ParserInputs
    /\ returned = NoInput
    /\ txn = NoTxn
    /\ seen = NoRead

\* A parser returns its value unless it raises.
Returns(fn, value, bodyRaises) ==
    /\ given.fn = fn
    /\ returned = NoInput
    /\ returned' = [ fn |-> fn, value |-> value,
                     raised |-> Raises(bodyRaises) ]
    /\ UNCHANGED << given, txn, seen, gwVars, dbVars, schedVars >>

CallParseUptime ==
    Returns("_parse_uptime", ParseUptime(given.uptime_str),
            UptimeBodyRaises(given.uptime_str))

CallParseBgpPeer ==
    Returns("parse_bgp_peer", ParseBgpPeer(given.text),
            PeerBodyRaises(given.text))

\* Nothing in the try blocks of the other parsers raises on a text: they
\* call str methods and re functions, and int() on groups of digits.
CallParseBgpRoutingTablePeer ==
    Returns("parse_bgp_routing_table_peer",
            ParseBgpRoutingTablePeer(given.text), FALSE)

CallParseInterfaceBrief ==
    Returns("parse_interface_brief", ParseInterfaceBrief(given.text), FALSE)

CallParseInterfaceDescription ==
    Returns("parse_interface_description",
            ParseInterfaceDescription(given.text), FALSE)

CallParseInterface ==
    Returns("parse_interface", ParseInterface(given.text), FALSE)

CallParseInterfaceStatistics ==
    Returns("parse_interface_statistics",
            ParseInterfaceStatistics(given.text), FALSE)

\* collect_interfaces on a listing that execute_command returned: the
\* listing is parsed and each record parsed from it is enriched.
CallCollectInterfaces ==
    LET interfaces == ParseInterface(given.text)
    IN  Returns("collect_interfaces",
                EnrichInterfaces(interfaces,
                                 [ k \in DOMAIN interfaces |-> given.reply ]),
                FALSE)

NextParsers ==
    \/ CallCollectInterfaces
    \/ CallParseUptime
    \/ CallParseBgpPeer
    \/ CallParseBgpRoutingTablePeer
    \/ CallParseInterfaceBrief
    \/ CallParseInterfaceDescription
    \/ CallParseInterface
    \/ CallParseInterfaceStatistics

SpecParsers == InitParsers /\ [][NextParsers]_vars

(***************************************************************************)
(* The commands the collectors pass to the gateway.                        *)
(***************************************************************************)
\* collect_bgp_prefixes: f"display bgp routing-table peer {peer_ip}"
PrefixesCommand(peer_ip) == "display bgp routing-table peer " \o peer_ip

\* collect_interface_statistics: f"display interface {interface_name}"
StatisticsCommand(interface_name) == "display interface " \o interface_name

\* The commands of one collection: the primary listing command, then one
\* detail command for each record the parser made of the listing.
CollectorCommands(t) ==
    IF t = "collect_bgp"
    THEN {"display bgp peer"}
            \cup (IF returned.fn = "parse_bgp_peer"
                  THEN { PrefixesCommand(returned.value[k].peer_ip) :
                           k \in DOMAIN returned.value }
                  ELSE {})
    ELSE {"display interface"}
            \cup (IF returned.fn = "parse_interface"
                  THEN { StatisticsCommand(returned.value[k].name) :
                           k \in DOMAIN returned.value }
                  ELSE {})

\* Peer addresses and interface names the row patterns accept: digits and
\* dots; letters, digits, "-", "/" and ".", words of the deny-list
\* included.
ListedAddresses == {"10.0.0.1", "192.168.100.254", "1", ".."}
ListedNames == {"GE0/7/0", "Eth-Trunk1.100", "reset-config/save", "-"}

ListingInputs ==
    { [ fn |-> "parse_bgp_peer", rows |-> << r >>,
        text |-> PeerTableText(<< r >>) ] :
        r \in { [ peer_ip |-> a,
                  uptime |-> [ form |-> "clock", a |-> 0, b |-> 5, c |-> 23,
                               word |-> "" ],
                  status |-> "Established" ] : a \in ListedAddresses } }
      \cup { [ fn |-> "parse_interface", rows |-> << r >>,
               text |-> DetailText(r) ] :
               r \in { [ name |-> n, phy |-> "up", protocol |-> "up" ] :
                         n \in ListedNames } }
      \cup { i \in PeerInputs \cup InterfaceInputs :
               i.fn \in {"parse_bgp_peer", "parse_interface"} }

InitCommands ==
    /\ InitGateway
    /\ InitStore
    /\ InitScheduler
    /\ given \in ListingInputs
    /\ returned = NoInput
    /\ txn = NoTxn
    /\ seen = NoRead

\* A listing is parsed, and the collectors call execute_command with
\* their commands.
NextCommands ==
    \/ CallParseBgpPeer
    \/ CallParseInterface
    \/ \E t \in Threads : \E c \in CollectorCommands(t) : ExecuteCommand(t, c)

SpecCommands == InitCommands /\ [][NextCommands]_vars

(***************************************************************************)
(* Properties of the command gateway.                                      *)
(***************************************************************************)
\* `text` starts with one of the allow-listed prefixes.
HasAllowedPrefix(text) ==
    \E i \in DOMAIN ALLOWED_COMMANDS : StartsWith(text, ALLOWED_COMMANDS[i])

HasForbiddenKeyword(text) ==
    \E k \in DOMAIN FORBIDDEN_KEYWORDS : Contains(text, FORBIDDEN_KEYWORDS[k])

\* C1, as amended: a call of execute_command is rejected by validation if
\* and only if the lowercase text of its command, with leading and trailing
\* whitespace removed, starts with no allow-listed prefix; a deny-list
\* keyword in the command never changes the outcome.  Every call past
\* validation carries a command with such a prefix.
C1_Validation ==
    \A t \in Threads :
       /\ last[t] # NoCall =>
             ((last[t].outcome = "rejected")
                 <=> ~HasAllowedPrefix(Strip(Lower(last[t].cmd))))
       /\ pc[t] # "idle" => HasAllowedPrefix(Strip(Lower(cmd[t])))

\* A command holding a deny-list keyword was accepted and has returned.
C1_Witness ==
    \E t \in Threads :
       /\ last[t].outcome = "returned"
       /\ HasForbiddenKeyword(Lower(last[t].cmd))

\* C1 as stated: rejected if and only if the lowercase text of the command
\* starts with no allow-listed prefix.
C1_AsStated ==
    \A t \in Threads :
       last[t] # NoCall =>
          ((last[t].outcome = "rejected")
              <=> ~HasAllowedPrefix(Lower(last[t].cmd)))

\* The newline-terminated lines of a text written to the session.
LinesOf(text) ==
    LET parts == SplitLines(text, "")
    IN  SubSeq(parts, 1, Len(parts) - 1)

\* C2: every newline-terminated line written to the remote session begins,
\* case-insensitively and leading whitespace aside, with an allow-listed
\* read-only prefix.
C2_ReadOnly ==
    \A i \in DOMAIN sent :
       \A j \in DOMAIN LinesOf(sent[i].text) :
          HasAllowedPrefix(Strip(Lower(LinesOf(sent[i].text)[j])))

\* C3: the step in which a call is rejected by validation makes no
\* connection attempt, sends nothing, leaves the connection, the sessions
\* and the gate as they were, and returns the caller to where it can call
\* again; the call has made no network operation.
C3_RejectedNoIO ==
    [][ \A t \in Threads :
           (Len(done'[t]) > Len(done[t]) /\ last'[t].outcome = "rejected") =>
              /\ connects' = connects
              /\ sent' = sent
              /\ UNCHANGED << connected, client, shell, lock, alive, owed,
                              rx >>
              /\ last'[t].io = 0
              /\ pc'[t] = "idle" ]_vars

\* A caller's rejected call was followed by a call of its own that
\* returned.
C3_Witness ==
    \E t \in Threads :
       /\ Len(done[t]) >= 2
       /\ done[t][1] = "rejected"
       /\ done[t][2] = "returned"

\* A call is in flight from sending its command to the end of its read.
InFlight(t) == pc[t] = "recv"

\* C4: at most one command is in flight on the remote session, and the
\* caller whose command is in flight holds the gate.
C4_OneInFlight ==
    /\ Cardinality({t \in Threads : InFlight(t)}) <= 1
    /\ \A t \in Threads : InFlight(t) => lock = t

\* One caller's command is in flight while the other waits at the gate.
C4_Witness ==
    \E t, u \in Threads : InFlight(t) /\ pc[u] = "lock"

\* C35: the text execute_command returns for a command consists only of
\* the device's output for that command: nothing the device produced in
\* response to an earlier command is returned as, or mixed into, the
\* result of a later one.
C35_OwnOutputOnly ==
    \A t \in Threads :
       (pc[t] = "idle" /\ last[t].outcome = "returned") =>
          \A i \in DOMAIN output[t] : output[t][i] = last[t].cmd

\* A call returned as its result the device's answer to the command of
\* the call before it, which had ended with nothing read.
C35_Witness ==
    \E t \in Threads :
       /\ pc[t] = "idle"
       /\ last[t].outcome = "returned"
       /\ Len(audit) = 2
       /\ audit[1].success
       /\ audit[1].command # last[t].cmd
       /\ output[t] = << audit[1].command >>

(***************************************************************************)
(* Properties of the reconcilers, stated on the last run: `before` is the  *)
(* store when it began, `db` the store after it, `run` what it was given.  *)
(***************************************************************************)
KeyOf(kind, r) == IF kind = "bgp" THEN r.peer_ip ELSE r.name

HistoryKeyOf(kind, h) == IF kind = "bgp" THEN h.peer_ip ELSE h.interface_name

TableOf(kind, d) == IF kind = "bgp" THEN d.bgp_sessions ELSE d.interfaces

HistoryOf(kind, d) ==
    IF kind = "bgp" THEN d.bgp_status_history
    ELSE d.interface_traffic_history

SourceOf(kind, key) ==
    IF kind = "bgp" THEN "BGP:" \o key ELSE "Interface:" \o key

Last(S) == CHOOSE m \in S : \A n \in S : n <= m

\* The status current-state holds for the key of record i of the run's
\* snapshot when that record is processed: that of the latest earlier
\* record of the snapshot with the same key, else that of the row stored
\* before the run, else none.
Prior(i) ==
    LET snap == run.snapshot
        key == KeyOf(run.kind, snap[i])
        rows == TableOf(run.kind, before)
        earlier == {j \in 1..(i - 1) : KeyOf(run.kind, snap[j]) = key}
        stored == {n \in DOMAIN rows : KeyOf(run.kind, rows[n]) = key}
    IN  IF earlier # {}
        THEN [known |-> TRUE, status |-> snap[Last(earlier)].status]
        ELSE IF stored # {}
        THEN [known |-> TRUE, status |-> rows[Last(stored)].status]
        ELSE [known |-> FALSE, status |-> ""]

\* The records of the run's snapshot whose key is known with another status.
Transitions ==
    {i \in DOMAIN run.snapshot :
        Prior(i).known /\ Prior(i).status # run.snapshot[i].status}

InOrder(S) ==
    CHOOSE f \in [1..Cardinality(S) -> S] :
        \A a, b \in 1..Cardinality(S) : a < b => f[a] < f[b]

\* The events the last run added.
NewEvents == SubSeq(db.events, Len(before.events) + 1, Len(db.events))

\* Current-state and history agree: every current-state row has history,
\* its latest history row carries the row's values and time of update, and
\* every history row belongs to a current-state row.
Consistent(d) ==
    /\ \A kind \in {"bgp", "interface"} :
          /\ \A n \in DOMAIN TableOf(kind, d) :
                \E m \in DOMAIN HistoryOf(kind, d) :
                   /\ HistoryKeyOf(kind, HistoryOf(kind, d)[m])
                         = KeyOf(kind, TableOf(kind, d)[n])
                   /\ HistoryOf(kind, d)[m].timestamp
                         = TableOf(kind, d)[n].last_updated
          /\ \A m \in DOMAIN HistoryOf(kind, d) :
                \E n \in DOMAIN TableOf(kind, d) :
                   HistoryKeyOf(kind, HistoryOf(kind, d)[m])
                      = KeyOf(kind, TableOf(kind, d)[n])
    /\ \A n \in DOMAIN d.bgp_sessions :
          LET row == d.bgp_sessions[n]
              hs == {m \in DOMAIN d.bgp_status_history :
                        d.bgp_status_history[m].peer_ip = row.peer_ip}
          IN  hs # {} =>
                 /\ d.bgp_status_history[Last(hs)].status = row.status
                 /\ d.bgp_status_history[Last(hs)].prefixes_received
                       = row.prefixes_received
    /\ \A n \in DOMAIN d.interfaces :
          LET row == d.interfaces[n]
              hs == {m \in DOMAIN d.interface_traffic_history :
                        d.interface_traffic_history[m].interface_name
                           = row.name}
          IN  hs # {} =>
                 /\ d.interface_traffic_history[Last(hs)].errors_in
                       = row.errors_in
                 /\ d.interface_traffic_history[Last(hs)].bandwidth_in_bps
                       = row.bandwidth_in_bps

\* C5: a reconcile batch is atomic.  After a run in which a per-entity
\* operation failed the store is what it was before the run, the writes
\* for the entities processed before the failure included; after a run
\* that completed every record has its history row and the current-state
\* row of each key holds the status of the key's last record; current-state
\* and history agree in every state.
C5_Atomic ==
    /\ run.outcome = "rolled_back" => db = before
    /\ run.outcome = "committed" =>
          /\ Len(HistoryOf(run.kind, db))
                = Len(HistoryOf(run.kind, before)) + Len(run.snapshot)
          /\ Len(NewEvents) = Cardinality(Transitions)
          /\ \A i \in DOMAIN run.snapshot :
                (\A j \in DOMAIN run.snapshot :
                    j > i => KeyOf(run.kind, run.snapshot[j])
                                # KeyOf(run.kind, run.snapshot[i]))
                => \E n \in DOMAIN TableOf(run.kind, db) :
                      /\ KeyOf(run.kind, TableOf(run.kind, db)[n])
                            = KeyOf(run.kind, run.snapshot[i])
                      /\ TableOf(run.kind, db)[n].status
                            = run.snapshot[i].status
                      /\ TableOf(run.kind, db)[n].last_updated = run.at
    /\ Consistent(db)

\* A run failed after it had processed a record, on a store that already
\* held rows.
C5_Witness ==
    /\ run.outcome = "rolled_back"
    /\ run.processed >= 1
    /\ before # EmptyDB

\* C6: in a committed reconcile run a transition event is written for a
\* snapshot record if and only if the record's key is in current-state
\* when the record is processed and the status held there differs from the
\* observed one.  The events the run adds are those of its transitions, in
\* snapshot order, each with the key, the status held and the status
\* observed; a key seen for the first time and a known key with the status
\* unchanged add none, and the events written earlier stay.
C6_TransitionEvents ==
    run.outcome = "committed" =>
       /\ Len(db.events) = Len(before.events) + Cardinality(Transitions)
       /\ SubSeq(db.events, 1, Len(before.events)) = before.events
       /\ \A k \in DOMAIN NewEvents :
             LET i == InOrder(Transitions)[k]
             IN  /\ NewEvents[k].source
                       = SourceOf(run.kind, KeyOf(run.kind, run.snapshot[i]))
                 /\ NewEvents[k].old_status = Prior(i).status
                 /\ NewEvents[k].new_status = run.snapshot[i].status

\* A committed run held a record of a key seen for the first time and a
\* record of a known key whose status changed.
C6_Witness ==
    /\ run.outcome = "committed"
    /\ \E i \in DOMAIN run.snapshot : ~Prior(i).known
    /\ Transitions # {}
    /\ Len(NewEvents) = 1

\* C7: the type and severity of a transition event follow from the new
\* status alone, compared without regard to case: for a peer, established
\* gives bgp_up and info, down gives bgp_down and critical, any other
\* status bgp_flapping and warning; for an interface, up gives
\* interface_up and info, down or admin_down interface_down and critical,
\* any other status interface_flapping and warning.  A run whose one
\* record shows Down for a peer stored as Established adds exactly one
\* event, bgp_down and critical.
C7_EventClass ==
    /\ \A k \in DOMAIN db.events :
          LET e == db.events[k]
              st == Lower(e.new_status)
          IN  IF StartsWith(e.source, "BGP:")
              THEN CASE st = "established" ->
                          e.event_type = "bgp_up" /\ e.severity = "info"
                     [] st = "down" ->
                          e.event_type = "bgp_down" /\ e.severity = "critical"
                     [] OTHER ->
                          /\ e.event_type = "bgp_flapping"
                          /\ e.severity = "warning"
              ELSE CASE st = "up" ->
                          /\ e.event_type = "interface_up"
                          /\ e.severity = "info"
                     [] st \in {"down", "admin_down"} ->
                          /\ e.event_type = "interface_down"
                          /\ e.severity = "critical"
                     [] OTHER ->
                          /\ e.event_type = "interface_flapping"
                          /\ e.severity = "warning"
    /\ ( /\ run.kind = "bgp"
         /\ run.outcome = "committed"
         /\ Len(run.snapshot) = 1
         /\ run.snapshot[1].status = "Down"
         /\ Prior(1) = [known |-> TRUE, status |-> "Established"] )
       => /\ Len(NewEvents) = 1
          /\ NewEvents[1].event_type = "bgp_down"
          /\ NewEvents[1].severity = "critical"

\* A peer stored as Established was observed as Down by a committed run of
\* one record, which added its event.
C7_Witness ==
    /\ run.kind = "bgp"
    /\ run.outcome = "committed"
    /\ Len(run.snapshot) = 1
    /\ run.snapshot[1].status = "Down"
    /\ Prior(1) = [known |-> TRUE, status |-> "Established"]
    /\ db.events # before.events

\* C8: a committed reconcile run appends to its history table exactly one
\* row per snapshot record, in snapshot order, with the record's key and
\* metrics and the time of the cycle, and leaves the rows written earlier
\* and the other history table as they were.
C8_HistoryRows ==
    run.outcome = "committed" =>
       LET snap == run.snapshot
           h == HistoryOf(run.kind, db)
           h0 == HistoryOf(run.kind, before)
       IN  /\ Len(h) = Len(h0) + Len(snap)
           /\ SubSeq(h, 1, Len(h0)) = h0
           /\ \A i \in DOMAIN snap :
                 h[Len(h0) + i] =
                    IF run.kind = "bgp"
                    THEN [ peer_ip |-> snap[i].peer_ip,
                           status |-> snap[i].status,
                           prefixes_received |-> snap[i].prefixes_received,
                           prefixes_sent |-> snap[i].prefixes_sent,
                           timestamp |-> run.at ]
                    ELSE [ interface_name |-> snap[i].name,
                           bandwidth_in_bps |-> snap[i].bandwidth_in_bps,
                           bandwidth_out_bps |-> snap[i].bandwidth_out_bps,
                           packets_in_pps |-> snap[i].packets_in_pps,
                           packets_out_pps |-> snap[i].packets_out_pps,
                           errors_in |-> snap[i].errors_in,
                           errors_out |-> snap[i].errors_out,
                           utilization_in_percent |->
                              snap[i].utilization_in_percent,
                           utilization_out_percent |->
                              snap[i].utilization_out_percent,
                           timestamp |-> run.at ]
           /\ run.kind = "bgp" =>
                 db.interface_traffic_history
                    = before.interface_traffic_history
           /\ run.kind = "interface" =>
                 db.bgp_status_history = before.bgp_status_history

\* A committed run held a record whose status was unchanged and a record
\* whose status changed, on a store that already had history.
C8_Witness ==
    /\ run.outcome = "committed"
    /\ \E i \in DOMAIN run.snapshot :
          Prior(i).known /\ Prior(i).status = run.snapshot[i].status
    /\ Transitions # {}
    /\ HistoryOf(run.kind, before) # <<>>

\* No key is listed in the snapshot with two different statuses.
NoConflict(kind, snap) ==
    \A i, j \in DOMAIN snap :
       KeyOf(kind, snap[i]) = KeyOf(kind, snap[j])
          => snap[i].status = snap[j].status

\* The second application of a snapshot wrote no event and left every
\* status as it was.
SameEventsAndStatuses ==
    /\ db.events = before.events
    /\ Len(TableOf(run.kind, db)) = Len(TableOf(run.kind, before))
    /\ \A n \in DOMAIN TableOf(run.kind, db) :
          /\ KeyOf(run.kind, TableOf(run.kind, db)[n])
                = KeyOf(run.kind, TableOf(run.kind, before)[n])
          /\ TableOf(run.kind, db)[n].status
                = TableOf(run.kind, before)[n].status

\* Each record of the snapshot has two history rows, one of each
\* application.
TwoHistoryRows ==
    LET snap == run.snapshot
        h == HistoryOf(run.kind, db)
        h0 == HistoryOf(run.kind, before)
    IN  /\ Len(h) = Len(h0) + Len(snap)
        /\ Len(h0) >= Len(snap)
        /\ SubSeq(h, 1, Len(h0)) = h0
        /\ \A i \in DOMAIN snap :
              /\ HistoryKeyOf(run.kind, h[Len(h0) + i])
                    = KeyOf(run.kind, snap[i])
              /\ HistoryKeyOf(run.kind, h[Len(h0) - Len(snap) + i])
                    = KeyOf(run.kind, snap[i])
              /\ h[Len(h0) + i].timestamp = run.at
              /\ h[Len(h0) - Len(snap) + i].timestamp < run.at

\* C9, as amended: applying twice in a row, from any starting state, a
\* snapshot that lists no key with two different statuses writes no
\* transition event in the second application and leaves every status in
\* current-state as the first left it, while each record gets a second
\* history row.
C9_Idempotent ==
    (run.repeat /\ NoConflict(run.kind, run.snapshot)) =>
       SameEventsAndStatuses /\ TwoHistoryRows

\* A snapshot of two records was applied a second time after its first
\* application, on a store that held rows, had written an event.
C9_Witness ==
    /\ run.repeat
    /\ NoConflict(run.kind, run.snapshot)
    /\ Len(run.snapshot) = 2
    /\ before.events # <<>>
    /\ before.events[Len(before.events)].timestamp = run.at - 1

\* C9 as stated: for every snapshot the second application writes no
\* event and changes no status, and each record has two history rows.
C9_AsStated ==
    run.repeat => SameEventsAndStatuses /\ TwoHistoryRows

\* The row stored before the last run for the key of row r, or None.
StoredBefore(r) ==
    FetchOne(TableOf(run.kind, before),
             IF run.kind = "bgp" THEN "peer_ip" ELSE "name",
             KeyOf(run.kind, r))

\* The last run was given a record with the key of row r and another
\* status than the one stored for it.
ObservedChanged(r) ==
    \E i \in DOMAIN run.snapshot :
       /\ KeyOf(run.kind, run.snapshot[i]) = KeyOf(run.kind, r)
       /\ run.snapshot[i].status # StoredBefore(r).status

\* C37: after a committed reconcile run the last_state_change of every
\* current-state row is the time of the most recent cycle in which the
\* stored status of its key changed, or of its first observation: a row
\* first stored by the run or whose status the run changed carries the
\* time of the run, and a row whose status the run did not change keeps
\* its last_state_change, its created_at and its key.
C37_LastStateChange ==
    (run.kind \in {"bgp", "interface"} /\ run.outcome = "committed") =>
       \A n \in DOMAIN TableOf(run.kind, db) :
          LET row == TableOf(run.kind, db)[n]
              old == StoredBefore(row)
          IN  IF old = None \/ old.status # row.status
              THEN row.last_state_change = run.at
              ELSE ~ObservedChanged(row) =>
                      /\ row.last_state_change = old.last_state_change
                      /\ row.created_at = old.created_at
                      /\ TableOf(run.kind, before)[n] = old

\* A committed run changed the stored status of a peer first seen a cycle
\* before, and the row still carries the time of that first cycle.
C37_Witness ==
    /\ run.kind = "bgp"
    /\ run.outcome = "committed"
    /\ \E n \in DOMAIN db.bgp_sessions :
          LET row == db.bgp_sessions[n]
              old == StoredBefore(row)
          IN  /\ old # None
              /\ old.status = "Established"
              /\ row.status = "Down"
              /\ row.last_updated = run.at
              /\ row.last_state_change = old.created_at
              /\ row.last_state_change < run.at

\* The keys of the records the last run was given.
SnapshotKeys == {KeyOf(run.kind, run.snapshot[i]) : i \in DOMAIN run.snapshot}

\* The history rows the last run added.
NewHistory ==
    SubSeq(HistoryOf(run.kind, db), Len(HistoryOf(run.kind, before)) + 1,
           Len(HistoryOf(run.kind, db)))

\* C38: a reconcile run leaves the current-state rows of the keys absent
\* from its snapshot as they were and writes no history row and no event
\* for them, and a run with an empty snapshot writes nothing.
C38_AbsentUntouched ==
    (run.kind \in {"bgp", "interface"}
        /\ run.outcome \in {"committed", "skipped"}) =>
       /\ \A n \in DOMAIN TableOf(run.kind, before) :
             KeyOf(run.kind, TableOf(run.kind, before)[n]) \notin SnapshotKeys
             => /\ n \in DOMAIN TableOf(run.kind, db)
                /\ TableOf(run.kind, db)[n] = TableOf(run.kind, before)[n]
       /\ \A n \in DOMAIN TableOf(run.kind, db) :
             KeyOf(run.kind, TableOf(run.kind, db)[n]) \notin SnapshotKeys
             => n \in DOMAIN TableOf(run.kind, before)
       /\ \A m \in DOMAIN NewHistory :
             HistoryKeyOf(run.kind, NewHistory[m]) \in SnapshotKeys
       /\ \A k \in DOMAIN NewEvents :
             \E key \in SnapshotKeys :
                NewEvents[k].source = SourceOf(run.kind, key)
       /\ run.snapshot = <<>> => db = before

\* A committed run that changed the status of one peer left the row of
\* the other peer, absent from its snapshot, as it was.
C38_Witness ==
    /\ run.kind = "bgp"
    /\ run.outcome = "committed"
    /\ NewEvents # <<>>
    /\ \E n \in DOMAIN before.bgp_sessions :
          /\ before.bgp_sessions[n].peer_ip \notin SnapshotKeys
          /\ db.bgp_sessions[n] = before.bgp_sessions[n]
          /\ db.bgp_sessions[n].last_updated < run.at

(***************************************************************************)
(* Properties of the alert evaluator.                                      *)
(***************************************************************************)
\* The error-threshold events stored for an interface.
HighErrorEvents(d, name) ==
    {k \in DOMAIN d.events :
        /\ d.events[k].event_type = "high_errors"
        /\ d.events[k].source = "Interface:" \o name}

\* The interfaces the error-threshold rule selects.
OverThreshold(d) ==
    {n \in DOMAIN d.interfaces :
        /\ d.interfaces[n].status = "up"
        /\ d.interfaces[n].errors_in + d.interfaces[n].errors_out
              > ALERT_ERROR_THRESHOLD}

\* C10: the runs of the alert evaluator that fall within one 10-minute
\* window write exactly one error-threshold event for an interface that is
\* up with its errors above the threshold: two such events of one
\* interface are at least 10 minutes apart, and after a run every such
\* interface has an event of its own written less than 10 minutes before.
C10_OnePerWindow ==
    /\ \A n \in DOMAIN db.interfaces :
          \A j, k \in HighErrorEvents(db, db.interfaces[n].name) :
             j < k => db.events[k].timestamp - db.events[j].timestamp >= 10
    /\ run.kind = "alerts" =>
          \A n \in OverThreshold(before) :
             \E k \in HighErrorEvents(db, db.interfaces[n].name) :
                db.events[k].timestamp > run.at - 10

\* On a host three hours behind UTC an interface over the threshold got a
\* second error-threshold event one minute after the first.
C10_Witness ==
    /\ tz = -180
    /\ run.kind = "alerts"
    /\ \E n \in OverThreshold(before) :
          \E j, k \in HighErrorEvents(db, db.interfaces[n].name) :
             db.events[k].timestamp = db.events[j].timestamp + 1

\* The peers and the interfaces the status rules select.
BgpCandidates(d) ==
    {n \in DOMAIN d.bgp_sessions : d.bgp_sessions[n].status # "Established"}

InterfaceCandidates(d) ==
    {n \in DOMAIN d.interfaces :
        d.interfaces[n].status \in {"down", "admin_down"}}

\* The last run wrote an event of the type for the source.
Emitted(event_type, source) ==
    \E k \in DOMAIN NewEvents :
       /\ NewEvents[k].event_type = event_type
       /\ NewEvents[k].source = source

\* An event of the type and of this very source was stored when the last
\* run began and was written less than `minutes` before it.
OwnRecentEvent(event_type, source, minutes) ==
    \E k \in DOMAIN before.events :
       /\ before.events[k].event_type = event_type
       /\ before.events[k].source = source
       /\ before.events[k].timestamp > run.at - minutes

\* C11, on a host whose clock is UTC: in a run of the alert evaluator the
\* alert of a candidate X is suppressed if and only if an event of the
\* same type whose source is X was written within the trailing window, 5
\* minutes for the status rules and 10 for the error-threshold rule; an
\* event of another entity, one whose key contains the key of X included,
\* does not suppress it.
C11_SuppressedByOwnEvent ==
    (tz = 0 /\ run.kind = "alerts") =>
       /\ \A n \in BgpCandidates(before) :
             LET source == "BGP:" \o before.bgp_sessions[n].peer_ip
             IN  Emitted("bgp_down", source)
                    <=> ~OwnRecentEvent("bgp_down", source, 5)
       /\ \A n \in InterfaceCandidates(before) :
             LET source == "Interface:" \o before.interfaces[n].name
             IN  Emitted("interface_down", source)
                    <=> ~OwnRecentEvent("interface_down", source, 5)
       /\ \A n \in OverThreshold(before) :
             LET source == "Interface:" \o before.interfaces[n].name
             IN  Emitted("high_errors", source)
                    <=> ~OwnRecentEvent("high_errors", source, 10)

\* On a UTC host a run left an interface over the threshold without an
\* event although none of its own was stored: the event of the interface
\* whose name contains its name was taken for one.
C11_Witness ==
    /\ tz = 0
    /\ run.kind = "alerts"
    /\ \E n \in OverThreshold(before) :
          /\ HighErrorEvents(db, before.interfaces[n].name) = {}
          /\ \E m \in OverThreshold(before) :
                /\ m # n
                /\ Contains(before.interfaces[m].name,
                            before.interfaces[n].name)
                /\ HighErrorEvents(db, before.interfaces[m].name) # {}

\* C12: after a run of the alert evaluator every peer whose stored status
\* is not Established and every interface stored as down or admin_down has
\* an event of its status-alert type written within the last 5 minutes,
\* and the run wrote no status-alert event for an Established peer or an
\* interface that is up.
C12_StatusAlerts ==
    run.kind = "alerts" =>
       /\ \A n \in BgpCandidates(before) :
             \E k \in DOMAIN db.events :
                /\ db.events[k].event_type = "bgp_down"
                /\ db.events[k].source
                      = "BGP:" \o before.bgp_sessions[n].peer_ip
                /\ db.events[k].timestamp > run.at - 5
       /\ \A n \in InterfaceCandidates(before) :
             \E k \in DOMAIN db.events :
                /\ db.events[k].event_type = "interface_down"
                /\ db.events[k].source
                      = "Interface:" \o before.interfaces[n].name
                /\ db.events[k].timestamp > run.at - 5
       /\ \A n \in DOMAIN before.bgp_sessions :
             before.bgp_sessions[n].status = "Established" =>
                ~Emitted("bgp_down",
                         "BGP:" \o before.bgp_sessions[n].peer_ip)
       /\ \A n \in DOMAIN before.interfaces :
             before.interfaces[n].status = "up" =>
                ~Emitted("interface_down",
                         "Interface:" \o before.interfaces[n].name)

\* On a host three hours ahead of UTC a run left a peer that is down with
\* no event of the last 5 minutes.
C12_Witness ==
    /\ tz = 180
    /\ run.kind = "alerts"
    /\ \E n \in BgpCandidates(before) :
          /\ NewEvents = <<>>
          /\ \A k \in DOMAIN db.events :
                db.events[k].timestamp <= run.at - 5

\* C13: the error-threshold rule selects an interface if and only if its
\* stored status is up and errors_in + errors_out is strictly greater than
\* the threshold.  A run writes error-threshold events for such interfaces
\* only, never for one whose sum equals the threshold or whose status is
\* down or admin_down, and it writes one when such an interface is stored
\* and no error-threshold event is.
C13_ErrorCandidates ==
    run.kind = "alerts" =>
       /\ \A k \in DOMAIN NewEvents :
             NewEvents[k].event_type = "high_errors" =>
                \E n \in DOMAIN before.interfaces :
                   /\ NewEvents[k].source
                         = "Interface:" \o before.interfaces[n].name
                   /\ before.interfaces[n].status = "up"
                   /\ before.interfaces[n].errors_in
                         + before.interfaces[n].errors_out
                         > ALERT_ERROR_THRESHOLD
       /\ \A n \in DOMAIN before.interfaces :
             ( \/ before.interfaces[n].errors_in
                     + before.interfaces[n].errors_out
                     <= ALERT_ERROR_THRESHOLD
               \/ before.interfaces[n].status # "up" )
             => ~Emitted("high_errors",
                         "Interface:" \o before.interfaces[n].name)
       /\ ( /\ OverThreshold(before) # {}
            /\ \A k \in DOMAIN before.events :
                  before.events[k].event_type # "high_errors" )
          => \E n \in OverThreshold(before) :
                Emitted("high_errors",
                        "Interface:" \o before.interfaces[n].name)

\* A run wrote an error-threshold event while an interface that is not up
\* was stored with more errors than the threshold.
C13_Witness ==
    /\ run.kind = "alerts"
    /\ \E k \in DOMAIN NewEvents : NewEvents[k].event_type = "high_errors"
    /\ \E n \in DOMAIN before.interfaces :
          /\ before.interfaces[n].status = "admin_down"
          /\ before.interfaces[n].errors_in + before.interfaces[n].errors_out
                > ALERT_ERROR_THRESHOLD

\* The events of one type among the events a run wrote.
OfType(events, event_type) ==
    SelectSeq(events, LAMBDA e : e.event_type = event_type)

\* The events a rule function adds to the database the run began with.
AddedTo(d, checked) == SubSeq(checked.events, Len(d.events) + 1,
                              Len(checked.events))

\* The last action was a run of the alert evaluator under recorded
\* settings and faults.
EvaluatorRan == run.kind = "alerts" /\ given.fn = "check_all_alerts"

\* C33: the three rule classes of the alert evaluator are independent.  In
\* a run where the query or the event write of some classes raises, every
\* other class that is evaluated writes exactly the events it writes when
\* it runs alone on the database the run began with, and no exception
\* leaves the evaluator.
C33_RulesIndependent ==
    EvaluatorRan =>
       /\ ~returned.raised
       /\ ( /\ given.settings.ALERT_BGP_DOWN_ENABLED
            /\ given.faults["bgp"] = "none" )
          => OfType(NewEvents, "bgp_down")
                = AddedTo(before, CheckBgpAlerts(before))
       /\ ( /\ given.settings.ALERT_INTERFACE_DOWN_ENABLED
            /\ given.faults["interfaces"] = "none" )
          => OfType(NewEvents, "interface_down")
                = AddedTo(before, CheckInterfaceAlerts(before))
       /\ given.faults["errors"] = "none"
          => OfType(NewEvents, "high_errors")
                = AddedTo(before, CheckErrorThresholds(before))

\* The query of the peer rule raised while a peer was down, and the run
\* wrote the interface event and the error-threshold event all the same.
C33_Witness ==
    /\ EvaluatorRan
    /\ given.settings.ALERT_BGP_DOWN_ENABLED
    /\ given.faults["bgp"] = "query"
    /\ BgpCandidates(before) # {}
    /\ OfType(NewEvents, "bgp_down") = <<>>
    /\ OfType(NewEvents, "interface_down") # <<>>
    /\ OfType(NewEvents, "high_errors") # <<>>

\* C34: the peer-status and the interface-status categories have an
\* enable flag each, and a run whose flag of a category is false writes no
\* event of that category; the error-threshold category has no flag and
\* is evaluated in every run.
C34_FlagsGate ==
    EvaluatorRan =>
       /\ ~given.settings.ALERT_BGP_DOWN_ENABLED
          => OfType(NewEvents, "bgp_down") = <<>>
       /\ ~given.settings.ALERT_INTERFACE_DOWN_ENABLED
          => OfType(NewEvents, "interface_down") = <<>>
       /\ ( /\ given.faults["errors"] = "none"
            /\ OverThreshold(before) # {}
            /\ OfType(before.events, "high_errors") = <<>> )
          => OfType(NewEvents, "high_errors") # <<>>

\* With both flags false and a peer and an interface down, a run wrote no
\* status event and wrote the error-threshold event.
C34_Witness ==
    /\ EvaluatorRan
    /\ ~given.settings.ALERT_BGP_DOWN_ENABLED
    /\ ~given.settings.ALERT_INTERFACE_DOWN_ENABLED
    /\ BgpCandidates(before) # {}
    /\ InterfaceCandidates(before) # {}
    /\ OfType(NewEvents, "high_errors") # <<>>
    /\ Len(NewEvents) = 1

\* C34 as stated, every category having an enable flag: a run with every
\* enable flag of the settings false writes no event.
C34_AsStated ==
    ( /\ EvaluatorRan
      /\ \A flag \in DOMAIN given.settings : ~given.settings[flag] )
    => NewEvents = <<>>

\* The suppression test of the evaluator applied to one stored event
\* alone, for its own type and source.
RecentBy(e, minutes) ==
    HasRecentEvent([EmptyDB EXCEPT !.events = << e >>],
                   e.event_type, e.source, minutes)

\* The suppression windows of the three rules.
Windows == {5, 10}

\* C36: the timestamps of the events and the `now` of the suppression
\* window denote the same clock.  On a host of any offset from UTC, an
\* event the last run wrote d minutes ago, d measured on the host's own
\* clock, is recent by a window of w minutes if and only if d < w.
C36_SameClock ==
    run.kind \in {"bgp", "interface", "alerts"} =>
       \A k \in DOMAIN NewEvents : \A w \in Windows :
          RecentBy(NewEvents[k], w) <=> (LocalNow - run.at < w)

\* On a host three hours behind UTC the event a run wrote one minute ago
\* is not recent by the 5-minute window; on a host three hours ahead the
\* event a run wrote nine minutes ago is.
C36_Witness ==
    /\ run.kind = "alerts"
    /\ NewEvents # <<>>
    /\ \/ /\ tz = -180
          /\ LocalNow - run.at = 1
          /\ ~RecentBy(NewEvents[1], 5)
       \/ /\ tz = 180
          /\ LocalNow - run.at = 9
          /\ RecentBy(NewEvents[1], 5)

\* The events stored when the last run began that a reconciler wrote for
\* a transition to a down status: the reconcilers' events carry the old
\* and the new status.
DownTransitions ==
    {k \in DOMAIN before.events :
        /\ "new_status" \in DOMAIN before.events[k]
        /\ before.events[k].event_type \in {"bgp_down", "interface_down"}}

\* C39: when a reconciler has committed a down-type transition event
\* (bgp_down, interface_down) for an entity, a run of the alert evaluator
\* within the 5 minutes that follow, measured on the host's clock, writes
\* no further event of that type for that entity.
C39_NoAlertAfterTransition ==
    run.kind = "alerts" =>
       \A k \in DownTransitions :
          (run.at - before.events[k].timestamp) \in 0..4
          => ~Emitted(before.events[k].event_type, before.events[k].source)

\* On a host three hours behind UTC a run of the evaluator wrote a second
\* bgp_down event for a peer in the very minute of the reconciler's.
C39_Witness ==
    /\ run.kind = "alerts"
    /\ tz = -180
    /\ \E k \in DownTransitions :
          /\ before.events[k].event_type = "bgp_down"
          /\ before.events[k].timestamp = run.at
          /\ Emitted("bgp_down", before.events[k].source)

(***************************************************************************)
(* Properties of the scheduler.                                            *)
(***************************************************************************)
\* C14: for each of the four job ids at most one instance of the job is
\* running at any time; a trigger that fires while the previous instance
\* of the job is running is skipped and starts no execution.
C14_OneInstance ==
    /\ [](\A j \in JobIds : instances[j] <= 1)
    /\ [][ \A j \in JobIds :
              (instances[j] = 1 /\ triggers' = triggers + 1
                  /\ (skipped'[j] # skipped[j] \/ instances'[j] # instances[j]))
              => /\ instances'[j] = 1
                 /\ skipped'[j] = skipped[j] + 1 ]_vars

\* A trigger of a job fired while its instance was running and was
\* skipped.
C14_Witness ==
    \E j \in JobIds : instances[j] = 1 /\ skipped[j] >= 1

\* C15: a failure raised in a job body is caught inside the job.  No job
\* function lets an exception out, the execution that failed is over (the
\* job is idle again), the scheduler, once started, keeps running, and the
\* trigger of every job can fire again after a failure.
C15_FailureCaught ==
    /\ [](escaped = {})
    /\ [][schedRunning => schedRunning']_vars
    /\ [][ \A j \in JobIds :
              (Len(outcomes'[j]) > Len(outcomes[j])
                  /\ outcomes'[j][Len(outcomes'[j])] # "done")
              => /\ outcomes'[j][Len(outcomes'[j])] = "caught"
                 /\ instances'[j] = instances[j] - 1
                 /\ instances'[j] = 0 ]_vars
    /\ [](\A j \in JobIds :
             (\E k \in JobIds : "caught" \in {outcomes[k][i] :
                                                i \in DOMAIN outcomes[k]})
             => (triggers < MaxTriggers => ENABLED TriggerJob(j)))

\* A job failed, its next execution completed, and a sibling job
\* completed an execution too.
C15_Witness ==
    \E j, k \in JobIds :
       /\ j # k
       /\ Len(outcomes[j]) = 2
       /\ outcomes[j][1] = "caught"
       /\ outcomes[j][2] = "done"
       /\ outcomes[k] = << "done" >>
       /\ run.outcome = "rolled_back"

FinishedCalls == calls - Cardinality({t \in Threads : pc[t] # "idle"})

\* C17: every call of execute_command that is over, whatever its outcome
\* (output returned, rejected by validation, connection failed, send or
\* receive failed), has appended exactly one entry to the command audit
\* log, the audit write itself succeeding.
C17_OneAuditEntry ==
    Len(audit) = FinishedCalls

\* A call rejected by validation is over and the audit log is empty.
C17_Witness ==
    \E t \in Threads :
       /\ pc[t] = "idle"
       /\ last[t].outcome = "rejected"
       /\ FinishedCalls = 1
       /\ audit = <<>>

\* C19: a command that got no response within the wait bound fails: at the
\* end of the wait, with nothing read, the call is not a success (and its
\* audit entry records a failure).
C19_TimeoutFails ==
    \A t \in Threads :
       (pc[t] = "finally" /\ io[t] > 0 /\ shell \notin detected
           /\ output[t] = <<>>)
       => ~success[t]

\* The session is open, the command was sent, nothing came back, and the
\* call is about to return the empty text as a success.
C19_Witness ==
    \E t \in Threads :
       /\ pc[t] = "finally"
       /\ shell \in alive
       /\ \E i \in DOMAIN sent : sent[i].text = Transmitted(cmd[t])
       /\ output[t] = <<>>
       /\ success[t]

\* C20: after a call failed because the session broke, no later call sends
\* on that session: the next call opens a new one first.
C20_Reconnects ==
    \A t \in Threads : pc[t] = "send" => shell \notin detected

\* A call failed on the broken session and a later call failed on the very
\* same session.
C20_Witness ==
    \E t \in Threads :
       /\ Len(done[t]) = 2
       /\ done[t][1] = "error"
       /\ done[t][2] = "error"
       /\ connects = 1
       /\ shell \in detected

\* C18: when the write of the audit entry fails (the call ends and the
\* audit log is as it was), the outcome of the call is the outcome of the
\* command: a command that succeeded returns its output, a command that
\* failed raises its error; the gate is released.
C18_AuditFailureSwallowed ==
    [][ \A t \in Threads :
           (pc[t] = "finally" /\ pc'[t] = "idle" /\ audit' = audit)
           => /\ last'[t].outcome = IF success[t] THEN "returned" ELSE "error"
              /\ output'[t] = output[t]
              /\ lock' = NoThread ]_vars

\* Both commands of a collection returned their output although neither
\* audit entry could be written.
C18_Witness ==
    \E t \in Threads :
       /\ done[t] = << "returned", "returned" >>
       /\ output[t] # <<>>
       /\ audit = <<>>
       /\ lock = NoThread

\* C21: the gateway holds at most one open remote session at any moment,
\* also when two callers find it not connected at the same time; the
\* session is not replaced while a command is in flight, so the receive of
\* a command reads the session its send wrote to.
C21_OneSession ==
    /\ Cardinality(alive) <= 1
    /\ \A t \in Threads :
          pc[t] = "recv" => sent[Len(sent)].sess = shell

\* Two sessions are open, and the caller waiting for its answer reads a
\* session other than the one its command went to.
C21_Witness ==
    \E t \in Threads :
       /\ pc[t] = "recv"
       /\ Cardinality(alive) = 2
       /\ sent[Len(sent)].sess \in alive
       /\ shell \in alive
       /\ sent[Len(sent)].sess # shell

(***************************************************************************)
(* Properties of the collectors.                                           *)
(***************************************************************************)
\* The enrichment fields of a record of the snapshot of `fn`.
Enrichment(fn, r) ==
    IF fn = "collect_bgp_sessions"
    THEN << r.prefixes_received, r.prefixes_sent >>
    ELSE << r.bandwidth_capacity, r.bandwidth_in_bps, r.bandwidth_out_bps,
            r.packets_in_pps, r.packets_out_pps, r.errors_in, r.errors_out,
            r.discards_in, r.discards_out, r.utilization_in_percent,
            r.utilization_out_percent >>

\* What the primary listing says of a record.
Listed(fn, r) ==
    IF fn = "collect_bgp_sessions"
    THEN << r.peer_ip, r.peer_asn, r.status, r.uptime_seconds >>
    ELSE << r.name, r.description, r.status >>

\* The enrichment fields a reply that parses gives a record.
Enriched(fn, reply) ==
    IF fn = "collect_bgp_sessions"
    THEN << reply.prefixes_received, reply.prefixes_sent >>
    ELSE << reply.bandwidth_capacity, reply.bandwidth_in_bps,
            reply.bandwidth_out_bps, reply.packets_in_pps,
            reply.packets_out_pps, reply.errors_in, reply.errors_out,
            reply.discards_in, reply.discards_out,
            IF reply.bandwidth_capacity > 0
            THEN (reply.bandwidth_in_bps * 100) \div reply.bandwidth_capacity
            ELSE 0,
            IF reply.bandwidth_capacity > 0
            THEN (reply.bandwidth_out_bps * 100) \div reply.bandwidth_capacity
            ELSE 0 >>

\* C22: when the primary listing succeeded the collector does not raise
\* and its snapshot has one record for each base record, in order, with
\* the listed fields as listed; a record whose supplementary command
\* failed or did not parse has every enrichment field zero, and every
\* other record has the fields of its own reply.
C22_EnrichmentIsolated ==
    (given.fn \in {"collect_bgp_sessions", "collect_interfaces"}
        /\ given.primary)
    => /\ ~returned.raised
       /\ Len(returned.value) = Len(given.base)
       /\ \A i \in DOMAIN given.base :
             /\ Listed(given.fn, returned.value[i])
                   = Listed(given.fn, given.base[i])
             /\ given.replies[i].kind # "ok"
                => \A k \in DOMAIN Enrichment(given.fn, returned.value[i]) :
                      Enrichment(given.fn, returned.value[i])[k] = 0
             /\ given.replies[i].kind = "ok"
                => Enrichment(given.fn, returned.value[i])
                      = Enriched(given.fn, given.replies[i])

\* Three peers were listed; the supplementary command of the first one
\* failed and the two after it were enriched.
C22_Witness ==
    /\ given.fn = "collect_bgp_sessions"
    /\ given.primary
    /\ Len(given.base) = 3
    /\ given.replies[1].kind = "error"
    /\ given.replies[2].kind = "ok"
    /\ given.replies[3].kind = "ok"
    /\ ~returned.raised
    /\ returned.value[1].prefixes_received = 0
    /\ returned.value[2].prefixes_received = 150
    /\ returned.value[3].prefixes_received = 7

\* C23: each execution of a collection job runs the primary listing
\* command at most once and calls the reconciler at most once; when the
\* listing fails the execution is over (the next attempt is the next
\* trigger's) and the tables are as the last cycle left them.
C23_FailedListing ==
    /\ [](\A j \in CollectJobs :
             /\ listings[j] <= Len(outcomes[j])
             /\ batches[j] <= Len(outcomes[j]))
    /\ [][ \A j \in CollectJobs :
              (listings'[j] # listings[j] /\ batches'[j] = batches[j])
              => /\ db' = db
                 /\ instances'[j] = 0
                 /\ Len(outcomes'[j]) = Len(outcomes[j]) + 1
                 /\ outcomes'[j][Len(outcomes'[j])] = "caught" ]_vars

\* A cycle of the peer job committed rows; its next execution failed in
\* the listing and the rows are still there.
C23_Witness ==
    /\ outcomes["collect_bgp"] = << "done", "caught" >>
    /\ listings["collect_bgp"] = 2
    /\ batches["collect_bgp"] = 1
    /\ db.bgp_sessions # <<>>
    /\ db.bgp_status_history # <<>>

(***************************************************************************)
(* Properties of the retention sweep.                                      *)
(***************************************************************************)
\* The age of a row at the last run, in minutes: the row's stamp and the
\* run's `at` are both readings of the host's local clock.
AgeAtRun(r) == run.at - r.timestamp

\* The rows of `rows` not older than `days` days at the last run.
NotOlderThan(rows, days) ==
    SelectSeq(rows, LAMBDA r : AgeAtRun(r) <= days * 1440)

\* C24: after a sweep that completed, the history tables hold exactly the
\* rows they held before that are not older than 30 days, the events
\* exactly those not older than 60 days, each unchanged; a sweep that
\* failed has deleted nothing.
C24_Retention ==
    run.kind = "cleanup"
    => IF run.outcome = "committed"
       THEN /\ db.bgp_status_history
                  = NotOlderThan(before.bgp_status_history, 30)
            /\ db.interface_traffic_history
                  = NotOlderThan(before.interface_traffic_history, 30)
            /\ db.events = NotOlderThan(before.events, 60)
            /\ db.bgp_sessions = before.bgp_sessions
            /\ db.interfaces = before.interfaces
       ELSE db = before

\* On a host three hours behind UTC a sweep deleted a history row that was
\* 29 days and 22 hours old.
C24_Witness ==
    /\ tz = -180
    /\ run.kind = "cleanup"
    /\ run.outcome = "committed"
    /\ \E i \in DOMAIN before.bgp_status_history :
          /\ AgeAtRun(before.bgp_status_history[i]) = 30 * 1440 - 120
          /\ db.bgp_status_history = <<>>

(***************************************************************************)
(* Properties of the tables under every operation.                         *)
(***************************************************************************)
\* The rows of `a` are the first rows of `b`, unchanged.
IsPrefix(a, b) ==
    Len(a) <= Len(b) /\ SubSeq(b, 1, Len(a)) = a

\* The keys of a current-state table.
KeysOf(rows, col) == { rows[i][col] : i \in DOMAIN rows }

\* C25: no operation deletes a current-state row or an audit entry: in
\* every step the keys of both current-state tables and the audit log only
\* grow; history rows and events are only appended, except in the step of
\* a retention sweep that commits.
C25_OnlyTheSweepDeletes ==
    [][ /\ KeysOf(db.bgp_sessions, "peer_ip")
              \subseteq KeysOf(db'.bgp_sessions, "peer_ip")
        /\ Len(db.bgp_sessions) <= Len(db'.bgp_sessions)
        /\ KeysOf(db.interfaces, "name") \subseteq KeysOf(db'.interfaces, "name")
        /\ Len(db.interfaces) <= Len(db'.interfaces)
        /\ IsPrefix(audit, audit')
        /\ ~( /\ IsPrefix(db.bgp_status_history, db'.bgp_status_history)
              /\ IsPrefix(db.interface_traffic_history,
                          db'.interface_traffic_history)
              /\ IsPrefix(db.events, db'.events) )
           => /\ run'.kind = "cleanup"
              /\ run'.outcome = "committed"
              /\ before' = db ]_vars

\* A sweep deleted history rows and an event; the current-state rows and
\* the audit entries written before it are still there.
C25_Witness ==
    /\ run.kind = "cleanup"
    /\ run.outcome = "committed"
    /\ Len(db.bgp_status_history) < Len(before.bgp_status_history)
    /\ Len(db.events) < Len(before.events)
    /\ db.bgp_sessions = before.bgp_sessions
    /\ db.bgp_sessions # <<>>
    /\ audit # <<>>

\* C26: after any sequence of reconcile runs each current-state table
\* holds at most one row per key, also when one snapshot lists a key twice.
C26_UniqueKeys ==
    /\ Cardinality(KeysOf(db.bgp_sessions, "peer_ip")) = Len(db.bgp_sessions)
    /\ Cardinality(KeysOf(db.interfaces, "name")) = Len(db.interfaces)

\* A committed run whose snapshot listed a new peer twice left one row for
\* it.
C26_Witness ==
    /\ run.kind = "bgp"
    /\ run.outcome = "committed"
    /\ Len(run.snapshot) = 2
    /\ run.snapshot[1].peer_ip = run.snapshot[2].peer_ip
    /\ before.bgp_sessions = <<>>
    /\ Len(db.bgp_sessions) = 1

(***************************************************************************)
(* Properties of readers.                                                  *)
(***************************************************************************)
\* C27: a read transaction that runs while a reconcile batch is open sees
\* none of the writes of that batch: the tables it reads are the tables as
\* they were when the batch began, never the batch's work in progress; a
\* read after the commit sees the whole batch.
C27_NoPartialRead ==
    /\ (seen.read /\ seen.during) => seen.tables = seen.start
    /\ (seen.read /\ ~seen.during /\ ~txn.open /\ seen.batch = runs)
       => seen.tables = db

\* A reader queried between the first and the second record of a batch
\* that had already written an event, and read the tables as they were
\* before the batch.
C27_Witness ==
    /\ seen.read
    /\ seen.during
    /\ seen.passes = 1
    /\ seen.records = 2
    /\ Len(seen.work.events) > Len(seen.start.events)
    /\ seen.work.interfaces # seen.start.interfaces
    /\ seen.tables = seen.start

(***************************************************************************)
(* Properties of the parsers.                                              *)
(***************************************************************************)
\* The overall status of an interface: up when both layers are up.
StatusOf(r) == IF r.phy = "up" /\ r.protocol = "up" THEN "up" ELSE "down"

InterfaceParsers ==
    {"parse_interface_brief", "parse_interface_description", "parse_interface"}

\* C28: every interface parser (the brief table, the description table and
\* the detail block the interface collector lists with) gives an interface
\* the status up only when both its physical layer and its line protocol
\* are up, and down for every other pairing of the two.
C28_StatusDerivation ==
    returned.fn \in InterfaceParsers =>
        /\ Len(returned.value) >= Len(given.rows)
        /\ \A i \in DOMAIN given.rows :
              /\ returned.value[i].name = given.rows[i].name
              /\ returned.value[i].status = StatusOf(given.rows[i])

\* The detail block of an interface whose physical layer is up and whose
\* line protocol is down has been parsed into a record.
C28_Witness ==
    /\ returned.fn = "parse_interface"
    /\ Len(given.rows) = 1
    /\ given.rows[1].phy = "up" /\ given.rows[1].protocol = "down"
    /\ Len(returned.value) = 1

\* The number of seconds an uptime stands for.
UptimeSeconds(u) ==
    CASE u.form = "clock" -> u.a * 3600 + u.b * 60 + u.c
      [] u.form = "compound" -> u.a * 86400 + u.b * 3600 + u.c * 60
      [] OTHER -> 0

\* C29: the uptime normalization returns HH*3600 + MM*60 + SS for a token
\* HH:MM:SS, d*86400 + h*3600 + m*60 for a token NdNhNm, 0 for "Never" in
\* any letter case and for the empty string, and never a negative number.
C29_UptimeNormalized ==
    returned.fn = "_parse_uptime" =>
        /\ returned.value = UptimeSeconds(given.uptime)
        /\ returned.value >= 0

\* A compound token of one day and five minutes has been normalized.
C29_Witness ==
    /\ returned.fn = "_parse_uptime"
    /\ given.uptime_str = "1d00h05m"
    /\ returned.value = 86700

\* C30: the peer-table parser returns exactly one record for each
\* well-formed row, whichever form the row's uptime has (HH:MM:SS, NdNhNm,
\* or the word never in any letter case), with uptime_seconds the
\* normalized value of that uptime: no row is dropped for the form of its
\* uptime.
C30_OneRecordPerRow ==
    returned.fn = "parse_bgp_peer" =>
        /\ Len(returned.value) = Len(given.rows)
        /\ \A i \in DOMAIN given.rows :
              /\ returned.value[i].peer_ip = given.rows[i].peer_ip
              /\ returned.value[i].status = given.rows[i].status
              /\ returned.value[i].uptime_seconds
                    = UptimeSeconds(given.rows[i].uptime)

\* A table of two rows, one of them with a compound uptime, has been
\* parsed into fewer records than rows.
C30_Witness ==
    /\ returned.fn = "parse_bgp_peer"
    /\ Len(given.rows) = 2
    /\ \E i \in DOMAIN given.rows : given.rows[i].uptime.form = "compound"
    /\ Len(returned.value) < Len(given.rows)

\* C31: for a primary interface listing of N well-formed interface blocks
\* the snapshot of the interface collector has N records, one for each
\* interface name of the listing.
C31_OneRecordPerBlock ==
    returned.fn = "collect_interfaces" =>
        /\ Len(returned.value) = Len(given.rows)
        /\ \A i \in DOMAIN given.rows :
              returned.value[i].name = given.rows[i].name

\* A listing of three blocks has been collected into a single record.
C31_Witness ==
    /\ returned.fn = "collect_interfaces"
    /\ Len(given.rows) = 3
    /\ Len(returned.value) = 1

\* The parsers the collection cycle calls, and what each returns when it
\* has found nothing.
CycleParsers ==
    { "parse_bgp_peer", "parse_bgp_routing_table_peer", "parse_interface",
      "parse_interface_statistics", "_parse_uptime" }

ZeroValue(fn) ==
    CASE fn = "_parse_uptime" -> 0
      [] fn = "parse_interface_statistics" -> ZeroStatistics
      [] fn = "parse_bgp_routing_table_peer" -> ZeroPrefixes
      [] OTHER -> <<>>

GivenText == IF given.fn = "_parse_uptime" THEN given.uptime_str ELSE given.text

C40_CollectorCommandsAllowed ==
    \A t \in Threads :
       /\ last[t].outcome # "rejected"
       /\ \A i \in DOMAIN done[t] : done[t][i] # "rejected"
       /\ \A c \in CollectorCommands(t) : ValidateCommand(c)

\* The detail command built from a parsed interface name that holds words
\* of the deny-list has passed the validation.
C40_Witness ==
    /\ returned.fn = "parse_interface"
    /\ pc["collect_interfaces"] = "check"
    /\ cmd["collect_interfaces"] = "display interface reset-config/save"
    /\ returned.value[1].name = "reset-config/save"

=============================================================================
